---- MODULE Spec2Model ----
(***************************************************************************)
(* Layered configuration resolution of script-herder: the priority-ordered *)
(* source collection (infra/priority_provider.rs), the JSON document       *)
(* (config/config_json.rs) over its I/O strategy (infra/io.rs), the        *)
(* environment source (config/config_env.rs), the source union and the     *)
(* bootstrap (config/mod.rs) and the resolver (config/provider.rs).        *)
(*                                                                         *)
(* Representation.  A JSON value is a record: [t |-> "null"],              *)
(* [t |-> "str", v |-> s], [t |-> "num", v |-> digits] or                  *)
(* [t |-> "obj", m |-> f] with f a function from keys to leaf values.      *)
(* Option::None is [t |-> "none"].  A text (file content, in-memory        *)
(* buffer) is the sequence of its lexemes, white space included.  A path   *)
(* is the sequence of its components below the root directory.             *)
(***************************************************************************)
EXTENDS Integers, Sequences, FiniteSets, TLC

VARIABLES
    providers,        \* PriorityProvider.providers : HashMap<i64, Config>
    priority,         \* PriorityProvider.priority  : HashSet<i64>
    lowest_priority,  \* PriorityProvider.lowest_priority
    upper_priority,   \* PriorityProvider.upper_priority
    root,             \* AppConfig.root (None before the bootstrap ran)
    files,            \* file system: path -> text of every existing file
    dirs,             \* file system: the existing directories
    readonly,         \* file system: files that cannot be written
    env,              \* process environment: name -> value
    aborted,          \* the process panicked
    reg,              \* history: the registrations so far, oldest first
    config_json,      \* a source used on its own (None when there is none)
    lastOp            \* history: the last operation and what it returned

vars == <<providers, priority, lowest_priority, upper_priority, root,
          files, dirs, readonly, env, aborted, reg,
          config_json, lastOp>>

----------------------------------------------------------------------------
(* Bounds of the verification.                                             *)

MaxSources == 3

----------------------------------------------------------------------------
(* JSON values.                                                            *)

NoneV == [t |-> "none"]
Null == [t |-> "null"]
Str(s) == [t |-> "str", v |-> s]
Num(n) == [t |-> "num", v |-> n]
Obj(m) == [t |-> "obj", m |-> m]
EmptyMap == [k \in {} |-> Null]
Some(x) == [t |-> "some", x |-> x]

RepoPath == "core.repo.path"
LogLevel == "core.log.level"
Keys == {LogLevel, RepoPath}

StrVals == {"error", "trace", "debug", "../myrepo", "/srv/repo", "/work"}
NumToks == {"10"}
Strings == Keys \cup StrVals

----------------------------------------------------------------------------
(* Texts: serde_json::to_string_pretty and serde_json::from_str.           *)

Quote(s) == "\"" \o s \o "\""
WhiteSpace == {"\n", "  ", " "}
IsStrTok(t) == \E s \in Strings : t = Quote(s)
Unquote(t) == CHOOSE s \in Strings : t = Quote(s)

LeafText(v) ==
    IF v.t = "null" THEN "null"
    ELSE IF v.t = "str" THEN Quote(v.v)
    ELSE v.v

\* The keys of a map in the order the serializer writes them: serde_json's
\* Map is a BTreeMap, which iterates in ascending key order.
KeyOrder == <<LogLevel, RepoPath>>
SortedKeys(S) == SelectSeq(KeyOrder, LAMBDA k : k \in S)

RECURSIVE PrettyMembers(_, _)
PrettyMembers(m, ks) ==
    IF ks = <<>> THEN <<>>
    ELSE <<"\n", "  ", Quote(Head(ks)), ":", " ", LeafText(m[Head(ks)])>>
         \o (IF Len(ks) > 1 THEN <<",">> ELSE <<>>)
         \o PrettyMembers(m, Tail(ks))

\* serde_json::to_string_pretty(value)
ToStringPretty(v) ==
    IF v.t = "obj"
    THEN IF DOMAIN v.m = {} THEN <<"{", "}">>
         ELSE <<"{">> \o PrettyMembers(v.m, SortedKeys(DOMAIN v.m)) \o <<"\n", "}">>
    ELSE <<LeafText(v)>>

ParseError == [ok |-> FALSE]
Parsed(v) == [ok |-> TRUE, v |-> v]

IsLeafTok(t) == t = "null" \/ t \in NumToks \/ IsStrTok(t)
LeafOfTok(t) ==
    IF t = "null" THEN Null
    ELSE IF t \in NumToks THEN Num(t)
    ELSE Str(Unquote(t))

\* The members of an object after its opening brace: "key" : value, then a
\* comma and another member, or the closing brace and nothing else.  A
\* repeated key keeps its last value.
RECURSIVE ParseMembers(_, _)
ParseMembers(ts, m) ==
    IF Len(ts) < 4 THEN ParseError
    ELSE IF ~ (IsStrTok(ts[1]) /\ ts[2] = ":" /\ IsLeafTok(ts[3])) THEN ParseError
    ELSE LET k  == Unquote(ts[1])
             m2 == [x \in DOMAIN m \cup {k} |->
                        IF x = k THEN LeafOfTok(ts[3]) ELSE m[x]]
         IN  IF ts[4] = "}"
             THEN IF Len(ts) = 4 THEN Parsed(Obj(m2)) ELSE ParseError
             ELSE IF ts[4] = ","
             THEN ParseMembers(SubSeq(ts, 5, Len(ts)), m2)
             ELSE ParseError

\* serde_json::from_str(text): white space is skipped between lexemes, the
\* empty text and trailing lexemes are errors.
FromStr(text) ==
    LET ts == SelectSeq(text, LAMBDA t : t \notin WhiteSpace)
    IN  IF ts = <<>> THEN ParseError
        ELSE IF Len(ts) = 1
        THEN IF IsLeafTok(ts[1]) THEN Parsed(LeafOfTok(ts[1])) ELSE ParseError
        ELSE IF ts[1] # "{" THEN ParseError
        ELSE IF ts = <<"{", "}">> THEN Parsed(Obj(EmptyMap))
        ELSE ParseMembers(Tail(ts), EmptyMap)

----------------------------------------------------------------------------
(* Paths and the file system.                                              *)

ConfigFileName == ".config-sh.json"

\* What the operating system makes of a path in the file system fs: ".."
\* steps to the parent of the directory walked so far, and fails when what
\* was walked so far is not an existing directory.  None when the walk
\* fails.
RECURSIVE ResolveFrom(_, _, _)
ResolveFrom(fs, p, acc) ==
    IF p = <<>> THEN Some(acc)
    ELSE IF Head(p) = ".."
    THEN IF acc \in fs.dirs
         THEN ResolveFrom(fs, Tail(p),
                          IF acc = <<>> THEN <<>> ELSE SubSeq(acc, 1, Len(acc) - 1))
         ELSE NoneV
    ELSE ResolveFrom(fs, Tail(p), Append(acc, Head(p)))

Resolve(fs, p) == ResolveFrom(fs, p, <<>>)

\* Path::parent
Parent(p) == IF p = <<>> THEN NoneV ELSE Some(SubSeq(p, 1, Len(p) - 1))

\* Path::join, for a relative second path
Join(p, q) == p \o q

Fs == [files |-> files, dirs |-> dirs, ro |-> readonly]

FileExists(fs, p) == Resolve(fs, p) # NoneV /\ Resolve(fs, p).x \in DOMAIN fs.files
DirExists(fs, p) == Resolve(fs, p) # NoneV /\ Resolve(fs, p).x \in fs.dirs
\* Path::exists
PathExists(fs, p) == FileExists(fs, p) \/ DirExists(fs, p)

\* std::fs::write: creates or truncates the file; fails when the file is
\* not writable or its directory does not exist.
CanWriteFile(fs, p) ==
    /\ Resolve(fs, p) # NoneV
    /\ Resolve(fs, p).x \notin fs.ro
    /\ Resolve(fs, p).x \notin fs.dirs
    /\ Resolve(fs, p).x # <<>>
    /\ Parent(Resolve(fs, p).x).x \in fs.dirs

WriteFile(fs, p, text) ==
    [fs EXCEPT !.files = [q \in DOMAIN fs.files \cup {Resolve(fs, p).x} |->
                             IF q = Resolve(fs, p).x THEN text ELSE fs.files[q]]]

----------------------------------------------------------------------------
(* infra/io.rs: the two I/O strategies.                                    *)

ConfigFile(path) == [kind |-> "file", path |-> path]
ConfigData(text) == [kind |-> "data", data |-> text]

IoErr == [ok |-> FALSE]

\* ConfigIO::read
IoRead(io, fs) ==
    IF io.kind = "data" THEN [ok |-> TRUE, text |-> io.data]
    ELSE IF FileExists(fs, io.path)
    THEN [ok |-> TRUE, text |-> fs.files[Resolve(fs, io.path).x]]
    ELSE IoErr

\* ConfigIO::write
IoWrite(io, text, fs) ==
    IF io.kind = "data"
    THEN [ok |-> TRUE, io |-> [io EXCEPT !.data = text], fs |-> fs]
    ELSE IF CanWriteFile(fs, io.path)
    THEN [ok |-> TRUE, io |-> io, fs |-> WriteFile(fs, io.path, text)]
    ELSE [ok |-> FALSE, io |-> io, fs |-> fs]

----------------------------------------------------------------------------
(* Typed values: serde's conversions for the types String and i64.         *)

Types == {"String", "i64"}
Typed(ty, val) == [ty |-> ty, val |-> val]

\* Mutant of FromValue: a string or number is handed out as the requested
\* type without looking at its shape.
FromValueUnchecked(v, ty) ==
    IF v.t \in {"str", "num"} THEN Some(Typed(ty, v.v)) ELSE NoneV

\* serde_json::from_value::<T>(value)
FromValue(v, ty) ==
    IF ty = "String" /\ v.t = "str" THEN Some(Typed(ty, v.v))
    ELSE IF ty = "i64" /\ v.t = "num" THEN Some(Typed(ty, v.v))
    ELSE NoneV

\* serde_json::to_value(value)
ToValue(tv) == IF tv.ty = "String" THEN Str(tv.val) ELSE Num(tv.val)

\* str::parse::<T>
ParseTyped(s, ty) ==
    IF ty = "String" THEN Some(Typed(ty, s))
    ELSE IF s \in NumToks THEN Some(Typed(ty, s))
    ELSE NoneV

----------------------------------------------------------------------------
(* config/config_json.rs                                                   *)

\* ConfigJson::new
JsonNew(io, can_write) ==
    [kind |-> "json", io |-> io, data |-> NoneV,
     can_write |-> can_write, is_synced |-> FALSE]

\* ConfigJson::load
JsonLoad(doc, fs) ==
    LET content == IoRead(doc.io, fs)
    IN  IF ~ content.ok THEN [ok |-> FALSE, doc |-> doc]
        ELSE LET data == FromStr(content.text)
             IN  IF ~ data.ok THEN [ok |-> FALSE, doc |-> doc]
                 ELSE [ok |-> TRUE, doc |-> [doc EXCEPT !.data = Some(data.v)]]

\* ConfigJson::from_file
JsonFromFile(path, fs) == JsonLoad(JsonNew(ConfigFile(path), TRUE), fs)

\* ConfigJson::from_data
JsonFromData(text) ==
    LET r == JsonLoad(JsonNew(ConfigData(text), FALSE), [files |-> <<>>, dirs |-> {}, ro |-> {}])
    IN  IF r.ok THEN [ok |-> TRUE, doc |-> [r.doc EXCEPT !.is_synced = TRUE]] ELSE r

\* ConfigJson::is_loaded
JsonIsLoaded(doc) == doc.data # NoneV

\* Mutant of JsonGetValue: the arm for Value::Null is missing.
JsonGetValueNullArmMissing(doc, key) ==
    IF doc.data = NoneV THEN NoneV
    ELSE IF doc.data.x.t # "obj" THEN NoneV
    ELSE IF key \notin DOMAIN doc.data.x.m THEN NoneV
    ELSE Some(doc.data.x.m[key])

\* ConfigJson::get_value; Value::get(key) is None on a root that is no object
JsonGetValue(doc, key) ==
    IF doc.data = NoneV THEN NoneV
    ELSE LET data == doc.data.x
         IN  IF data.t # "obj" THEN NoneV
             ELSE IF key \notin DOMAIN data.m THEN NoneV
             ELSE IF data.m[key] = Null THEN NoneV
             ELSE Some(data.m[key])

\* data[key] = value (serde_json's IndexMut<&str> for Value): a null root
\* becomes an object, an object gets the key, any other root panics.
IndexAssign(data, key, value) ==
    IF data.t = "obj"
    THEN [ok |-> TRUE,
          v |-> Obj([x \in DOMAIN data.m \cup {key} |->
                        IF x = key THEN value ELSE data.m[x]])]
    ELSE IF data.t = "null"
    THEN [ok |-> TRUE, v |-> Obj([x \in {key} |-> value])]
    ELSE [ok |-> FALSE, v |-> data]

\* Mutant of JsonSetValue: is_synced is left as it is.
JsonSetValueKeepsSynced(doc, key, value) ==
    IF doc.data # NoneV
    THEN LET r == IndexAssign(doc.data.x, key, value)
         IN  IF r.ok
             THEN [ok |-> TRUE, doc |-> [doc EXCEPT !.data = Some(r.v)]]
             ELSE [ok |-> FALSE, doc |-> doc]
    ELSE [ok |-> TRUE,
          doc |-> [doc EXCEPT !.data = Some(Obj([x \in {key} |-> value]))]]

\* ConfigJson::set_value; ok = FALSE is a panic
JsonSetValue(doc, key, value) ==
    IF doc.data # NoneV
    THEN LET r == IndexAssign(doc.data.x, key, value)
         IN  IF r.ok
             THEN [ok |-> TRUE, doc |-> [doc EXCEPT !.data = Some(r.v), !.is_synced = FALSE]]
             ELSE [ok |-> FALSE, doc |-> doc]
    ELSE [ok |-> TRUE,
          doc |-> [doc EXCEPT !.data = Some(Obj([x \in {key} |-> value])),
                              !.is_synced = FALSE]]

\* ConfigJson::set
JsonSet(doc, key, tv) == JsonSetValue(doc, key, ToValue(tv))

\* Mutant of JsonSave: the flag is set before the write, a failed write
\* leaves it set.
JsonSaveMarksSyncedFirst(doc, fs) ==
    IF ~ doc.can_write THEN [ok |-> FALSE, doc |-> doc, fs |-> fs]
    ELSE IF doc.data = NoneV THEN [ok |-> TRUE, doc |-> doc, fs |-> fs]
    ELSE LET content == ToStringPretty(doc.data.x)
             w == IoWrite(doc.io, content, fs)
         IN  [ok |-> w.ok,
              doc |-> [doc EXCEPT !.io = w.io, !.is_synced = TRUE],
              fs |-> w.fs]

\* Mutant of JsonSave: can_write is not looked at.
JsonSaveNoWriteCheck(doc, fs) ==
    IF doc.data = NoneV THEN [ok |-> TRUE, doc |-> doc, fs |-> fs]
    ELSE LET content == ToStringPretty(doc.data.x)
             w == IoWrite(doc.io, content, fs)
         IN  IF ~ w.ok THEN [ok |-> FALSE, doc |-> doc, fs |-> fs]
             ELSE [ok |-> TRUE,
                   doc |-> [doc EXCEPT !.io = w.io, !.is_synced = TRUE],
                   fs |-> w.fs]

\* ConfigJson::save
JsonSave(doc, fs) ==
    IF ~ doc.can_write THEN [ok |-> FALSE, doc |-> doc, fs |-> fs]
    ELSE IF doc.data = NoneV THEN [ok |-> TRUE, doc |-> doc, fs |-> fs]
    ELSE LET content == ToStringPretty(doc.data.x)
             w == IoWrite(doc.io, content, fs)
         IN  IF ~ w.ok THEN [ok |-> FALSE, doc |-> doc, fs |-> fs]
             ELSE [ok |-> TRUE,
                   doc |-> [doc EXCEPT !.io = w.io, !.is_synced = TRUE],
                   fs |-> w.fs]

\* ConfigJson::get
JsonGet(doc, key, ty) ==
    LET value == JsonGetValue(doc, key)
    IN  IF value = NoneV THEN NoneV ELSE FromValue(value.x, ty)

----------------------------------------------------------------------------
(* config/config_env.rs                                                    *)

\* ConfigEnv::new
ConfigEnv(use_config, prefix) ==
    [kind |-> "env", use_config |-> use_config, prefix |-> prefix]

\* ConfigEnv::get_key
EnvGetKey(src, key) ==
    IF src.prefix # NoneV THEN src.prefix.x \o "_" \o key ELSE key

\* ConfigEnv::get_value
EnvGetValue(src, key, e) ==
    LET actual_key == EnvGetKey(src, key)
    IN  IF src.use_config
        THEN IF actual_key \in DOMAIN e THEN Some(e[actual_key]) ELSE NoneV
        ELSE NoneV

\* ConfigEnv::get
EnvGet(src, key, ty, e) ==
    LET value == EnvGetValue(src, key, e)
    IN  IF value = NoneV THEN NoneV ELSE ParseTyped(value.x, ty)

----------------------------------------------------------------------------
(* config/mod.rs: the source union.                                        *)

ConfigNone == [kind |-> "none"]

\* Config::get
ConfigGet(c, key, ty, e) ==
    IF c.kind = "json" THEN JsonGet(c, key, ty)
    ELSE IF c.kind = "env" THEN EnvGet(c, key, ty, e)
    ELSE NoneV

\* Config::get_value
ConfigGetValue(c, key, e) ==
    IF c.kind = "json" THEN JsonGetValue(c, key)
    ELSE IF c.kind = "env"
    THEN LET v == EnvGetValue(c, key, e)
         IN  IF v = NoneV THEN NoneV ELSE Some(Str(v.x))
    ELSE NoneV

\* Config::set: whether the write was applied, and the source after it
ConfigSet(c, key, tv) ==
    IF c.kind = "json"
    THEN LET r == JsonSet(c, key, tv)
         IN  [applied |-> TRUE, panic |-> ~ r.ok, c |-> r.doc]
    ELSE [applied |-> FALSE, panic |-> FALSE, c |-> c]

\* Mutant of ConfigSetValue: every variant reports the write as applied.
ConfigSetValueReportsApplied(c, key, value) ==
    IF c.kind = "json"
    THEN LET r == JsonSetValue(c, key, value)
         IN  [applied |-> TRUE, panic |-> ~ r.ok, c |-> r.doc]
    ELSE [applied |-> TRUE, panic |-> FALSE, c |-> c]

\* Config::set_value
ConfigSetValue(c, key, value) ==
    IF c.kind = "json"
    THEN LET r == JsonSetValue(c, key, value)
         IN  [applied |-> TRUE, panic |-> ~ r.ok, c |-> r.doc]
    ELSE [applied |-> FALSE, panic |-> FALSE, c |-> c]

\* Config::save
ConfigSave(c, fs) ==
    IF c.kind = "json"
    THEN LET r == JsonSave(c, fs) IN [ok |-> r.ok, c |-> r.doc, fs |-> r.fs]
    ELSE [ok |-> TRUE, c |-> c, fs |-> fs]

\* Config::load
ConfigLoad(c, fs) ==
    IF c.kind = "json"
    THEN LET r == JsonLoad(c, fs) IN [ok |-> r.ok, c |-> r.doc]
    ELSE [ok |-> TRUE, c |-> c]

----------------------------------------------------------------------------
(* infra/priority_provider.rs                                              *)

\* The collection as one value.
PP == [providers |-> providers, priority |-> priority,
       lowest_priority |-> lowest_priority, upper_priority |-> upper_priority]

\* PriorityProvider::new
PPNew == [providers |-> <<>>, priority |-> {},
          lowest_priority |-> 0, upper_priority |-> 0]

\* Mutant of SortKeys: the keys are left in descending order.
RECURSIVE SortKeysDescending(_)
SortKeysDescending(S) ==
    IF S = {} THEN <<>>
    ELSE LET k == CHOOSE x \in S : \A y \in S : x >= y
         IN  <<k>> \o SortKeysDescending(S \ {k})

\* sorted_keys.sort(): the tracked keys in ascending order
RECURSIVE SortKeys(_)
SortKeys(S) ==
    IF S = {} THEN <<>>
    ELSE LET k == CHOOSE x \in S : \A y \in S : x <= y
         IN  <<k>> \o SortKeys(S \ {k})

\* PriorityProviderIterator: the items next() yields until it returns None,
\* which it does at the end of the keys and at a key the map does not hold.
RECURSIVE IterFrom(_, _)
IterFrom(pp, keys) ==
    IF keys = <<>> THEN <<>>
    ELSE IF Head(keys) \notin DOMAIN pp.providers THEN <<>>
    ELSE <<pp.providers[Head(keys)]>> \o IterFrom(pp, Tail(keys))

\* PriorityProvider::iter, collected
Iter(pp) == IterFrom(pp, SortKeys(pp.priority))

\* PriorityProvider::get_at
GetAt(pp, pos) == IF pos \in DOMAIN pp.providers THEN Some(pp.providers[pos]) ELSE NoneV

\* Mutant of SetAt: lowest_priority is not updated.
SetAtLowestNotTracked(pp, pos, provider) ==
    [providers |-> [k \in DOMAIN pp.providers \cup {pos} |->
                       IF k = pos THEN provider ELSE pp.providers[k]],
     priority |-> pp.priority \cup {pos},
     upper_priority |-> IF pos > pp.upper_priority THEN pos ELSE pp.upper_priority,
     lowest_priority |-> pp.lowest_priority]

\* Mutant of SetAt: the key is stored in the map but not tracked.
SetAtKeyNotTracked(pp, pos, provider) ==
    [providers |-> [k \in DOMAIN pp.providers \cup {pos} |->
                       IF k = pos THEN provider ELSE pp.providers[k]],
     priority |-> pp.priority,
     upper_priority |-> IF pos > pp.upper_priority THEN pos ELSE pp.upper_priority,
     lowest_priority |-> IF pos < pp.lowest_priority THEN pos ELSE pp.lowest_priority]

\* Mutant of SetAt: upper_priority is not updated.
SetAtUpperNotTracked(pp, pos, provider) ==
    [providers |-> [k \in DOMAIN pp.providers \cup {pos} |->
                       IF k = pos THEN provider ELSE pp.providers[k]],
     priority |-> pp.priority \cup {pos},
     upper_priority |-> pp.upper_priority,
     lowest_priority |-> IF pos < pp.lowest_priority THEN pos ELSE pp.lowest_priority]

\* Mutant of SetAt: an occupied key keeps its item (insert does not
\* overwrite).
SetAtKeepsOccupied(pp, pos, provider) ==
    [providers |-> [k \in DOMAIN pp.providers \cup {pos} |->
                       IF k \in DOMAIN pp.providers THEN pp.providers[k] ELSE provider],
     priority |-> pp.priority \cup {pos},
     upper_priority |-> IF pos > pp.upper_priority THEN pos ELSE pp.upper_priority,
     lowest_priority |-> IF pos < pp.lowest_priority THEN pos ELSE pp.lowest_priority]

\* PriorityProvider::set_at
SetAt(pp, pos, provider) ==
    [providers |-> [k \in DOMAIN pp.providers \cup {pos} |->
                       IF k = pos THEN provider ELSE pp.providers[k]],
     priority |-> pp.priority \cup {pos},
     upper_priority |-> IF pos > pp.upper_priority THEN pos ELSE pp.upper_priority,
     lowest_priority |-> IF pos < pp.lowest_priority THEN pos ELSE pp.lowest_priority]

\* Mutant of Add: the position is taken from lowest_priority, as in
\* add_top.
AddPrepends(pp, provider) == SetAt(pp, pp.lowest_priority - 1, provider)

\* PriorityProvider::add
Add(pp, provider) == SetAt(pp, pp.upper_priority + 1, provider)

\* Mutant of AddTop: the position is taken from upper_priority, as in add.
AddTopAppends(pp, provider) == SetAt(pp, pp.upper_priority + 1, provider)

\* PriorityProvider::add_top
AddTop(pp, provider) == SetAt(pp, pp.lowest_priority - 1, provider)

\* Mutant of MapFirst: the loop does not return at the first result, the
\* last one wins.
MapFirstLastWins(results) ==
    LET hits == {i \in 1..Len(results) : results[i] # NoneV}
    IN  IF hits = {} THEN NoneV
        ELSE results[CHOOSE i \in hits : \A j \in hits : i >= j]

\* PriorityProvider::map_first, given what the closure returns for each item
\* of the iteration: the first result that is not None.
MapFirst(results) ==
    LET hits == {i \in 1..Len(results) : results[i] # NoneV}
    IN  IF hits = {} THEN NoneV
        ELSE results[CHOOSE i \in hits : \A j \in hits : i <= j]

\* Mutant of FirstMut: the scan keeps the last item the filter accepts.
FirstMutLastHit(pp, accepts) ==
    LET keys == SortKeys(pp.priority)
        hits == {i \in 1..Len(keys) :
                    keys[i] \in DOMAIN pp.providers /\ accepts[keys[i]]}
    IN  IF hits = {} THEN [panic |-> FALSE, key |-> NoneV]
        ELSE [panic |-> FALSE, key |-> Some(keys[CHOOSE x \in hits : \A y \in hits : x >= y])]

\* PriorityProvider::first_mut, given the items the filter accepts: the key
\* of the first of them; unwrap() panics on a tracked key the map does not
\* hold.
FirstMut(pp, accepts) ==
    LET keys == SortKeys(pp.priority)
        hits == {i \in 1..Len(keys) :
                    keys[i] \notin DOMAIN pp.providers \/ accepts[keys[i]]}
    IN  IF hits = {} THEN [panic |-> FALSE, key |-> NoneV]
        ELSE LET i == CHOOSE x \in hits : \A y \in hits : x <= y
             IN  IF keys[i] \notin DOMAIN pp.providers
                 THEN [panic |-> TRUE, key |-> NoneV]
                 ELSE [panic |-> FALSE, key |-> Some(keys[i])]

\* PriorityProvider::each_mut.  The closure is the table f of what it makes
\* of each item: every tracked key in ascending order, the unwrap on a key
\* that holds no item is a panic.
RECURSIVE EachMut(_, _, _)
EachMut(pp, keys, f) ==
    IF keys = <<>> THEN [panic |-> FALSE, pp |-> pp]
    ELSE IF Head(keys) \notin DOMAIN pp.providers THEN [panic |-> TRUE, pp |-> pp]
    ELSE EachMut([pp EXCEPT !.providers[Head(keys)] = f[pp.providers[Head(keys)]]],
                 Tail(keys), f)

\* PriorityProvider::map_mut.  The closure is the table f of the item it
\* leaves (p) and the value it returns (res) for each item: every tracked
\* key in ascending order, the values that are not None pushed in that
\* order.
RECURSIVE MapMut(_, _, _, _)
MapMut(pp, keys, f, result) ==
    IF keys = <<>> THEN [panic |-> FALSE, pp |-> pp, result |-> result]
    ELSE IF Head(keys) \notin DOMAIN pp.providers
    THEN [panic |-> TRUE, pp |-> pp, result |-> result]
    ELSE LET r == f[pp.providers[Head(keys)]]
         IN  MapMut([pp EXCEPT !.providers[Head(keys)] = r.p], Tail(keys), f,
                    IF r.res = NoneV THEN result ELSE Append(result, r.res.x))

----------------------------------------------------------------------------
(* config/provider.rs: the resolver.                                       *)

\* ConfigProvider::get
ProviderGet(pp, key, ty, e) ==
    LET items == Iter(pp)
    IN  MapFirst([i \in 1..Len(items) |-> ConfigGet(items[i], key, ty, e)])

\* ConfigProvider::get_value
ProviderGetValue(pp, key, e) ==
    LET items == Iter(pp)
    IN  MapFirst([i \in 1..Len(items) |-> ConfigGetValue(items[i], key, e)])

\* The filter of set and set_value on every item: Config::Json(_) => true.
IsJson(pp) == [k \in DOMAIN pp.providers |-> pp.providers[k].kind = "json"]

\* Mutant of ProviderSetValue: the document is written but not stored back.
ProviderSetValueDropped(pp, key, value) ==
    LET f == FirstMut(pp, IsJson(pp))
    IN  IF f.panic THEN [ok |-> FALSE, pp |-> pp]
        ELSE IF f.key = NoneV THEN [ok |-> TRUE, pp |-> pp]
        ELSE [ok |-> JsonSetValue(pp.providers[f.key.x], key, value).ok, pp |-> pp]

\* Mutant of ProviderSetValue: every JSON document is written, not only the
\* first one.
ProviderSetValueEveryJson(pp, key, value) ==
    [ok |-> \A k \in DOMAIN pp.providers :
               pp.providers[k].kind = "json" => JsonSetValue(pp.providers[k], key, value).ok,
     pp |-> [pp EXCEPT !.providers =
                [k \in DOMAIN pp.providers |->
                    IF pp.providers[k].kind = "json"
                    THEN JsonSetValue(pp.providers[k], key, value).doc
                    ELSE pp.providers[k]]]]

\* ConfigProvider::set_value
ProviderSetValue(pp, key, value) ==
    LET f == FirstMut(pp, IsJson(pp))
    IN  IF f.panic THEN [ok |-> FALSE, pp |-> pp]
        ELSE IF f.key = NoneV THEN [ok |-> TRUE, pp |-> pp]
        ELSE LET r == JsonSetValue(pp.providers[f.key.x], key, value)
             IN  [ok |-> r.ok,
                  pp |-> [pp EXCEPT !.providers[f.key.x] = r.doc]]

\* ConfigProvider::set
ProviderSet(pp, key, tv) ==
    LET f == FirstMut(pp, IsJson(pp))
    IN  IF f.panic THEN [ok |-> FALSE, pp |-> pp]
        ELSE IF f.key = NoneV THEN [ok |-> TRUE, pp |-> pp]
        ELSE LET r == JsonSet(pp.providers[f.key.x], key, tv)
             IN  [ok |-> r.ok,
                  pp |-> [pp EXCEPT !.providers[f.key.x] = r.doc]]

\* Mutant of SyncOne: every JSON document is saved, whatever its flags.
SyncOneEveryJson(p, fs) ==
    IF p.kind = "json"
    THEN LET r == JsonSave(p, fs)
         IN  [res |-> Some(IF r.ok THEN "Ok" ELSE "Err"), p |-> r.doc, fs |-> r.fs]
    ELSE [res |-> NoneV, p |-> p, fs |-> fs]

\* The closure ConfigProvider::sync hands to map_mut, on one source: the
\* outcome of save() for a document that is not synced and can be written,
\* None for every other source.
SyncOne(p, fs) ==
    IF p.kind = "json" /\ ~ p.is_synced /\ p.can_write
    THEN LET r == JsonSave(p, fs)
         IN  [res |-> Some(IF r.ok THEN "Ok" ELSE "Err"), p |-> r.doc, fs |-> r.fs]
    ELSE [res |-> NoneV, p |-> p, fs |-> fs]

\* Mutant of MapMutSync: the loop stops at the first failing outcome.
RECURSIVE MapMutSyncFailFast(_, _, _, _)
MapMutSyncFailFast(pp, keys, fs, result) ==
    IF keys = <<>> THEN [panic |-> FALSE, pp |-> pp, fs |-> fs, result |-> result]
    ELSE IF Head(keys) \notin DOMAIN pp.providers
    THEN [panic |-> TRUE, pp |-> pp, fs |-> fs, result |-> result]
    ELSE LET r == SyncOne(pp.providers[Head(keys)], fs)
         IN  IF r.res = Some("Err")
             THEN [panic |-> FALSE, pp |-> pp, fs |-> fs, result |-> Append(result, "Err")]
             ELSE MapMutSyncFailFast([pp EXCEPT !.providers[Head(keys)] = r.p],
                                     Tail(keys), r.fs,
                                     IF r.res = NoneV THEN result
                                     ELSE Append(result, r.res.x))

\* PriorityProvider::map_mut with the closure of sync: every key in
\* ascending order, the results that are not None pushed in that order.
RECURSIVE MapMutSync(_, _, _, _)
MapMutSync(pp, keys, fs, result) ==
    IF keys = <<>> THEN [panic |-> FALSE, pp |-> pp, fs |-> fs, result |-> result]
    ELSE IF Head(keys) \notin DOMAIN pp.providers
    THEN [panic |-> TRUE, pp |-> pp, fs |-> fs, result |-> result]
    ELSE LET r == SyncOne(pp.providers[Head(keys)], fs)
         IN  MapMutSync([pp EXCEPT !.providers[Head(keys)] = r.p], Tail(keys), r.fs,
                        IF r.res = NoneV THEN result ELSE Append(result, r.res.x))

\* ConfigProvider::sync
ProviderSync(pp, fs) == MapMutSync(pp, SortKeys(pp.priority), fs, <<>>)

----------------------------------------------------------------------------
(* The resolver under arbitrary registrations (specification Spec).        *)

TextEmptyObject == <<"{", "}">>
TextLog(level) == <<"{", Quote(LogLevel), ":", " ", Quote(level), "}">>

FileA == <<"a.json">>
FileB == <<"b.json">>

\* The file system and the environment the resolver runs in.
SpecFiles == [p \in {FileA, FileB} |->
                 IF p = FileA THEN TextLog("trace") ELSE TextEmptyObject]
SpecDirs == {<<>>}
SpecEnv == [n \in {LogLevel} |-> "10"]

\* The sources a caller can build and register: a document from a buffer
\* (read-only, synced), a document from a file (writable), a writable
\* document that was never loaded, an environment source.
Candidates(fs) ==
    {r.doc : r \in {x \in {JsonFromData(TextLog("error")),
                           JsonFromFile(FileA, fs)} : x.ok}}
    \cup {JsonNew(ConfigFile(FileB), TRUE), ConfigEnv(TRUE, NoneV)}

\* The keys and values the callers read and write.
OpKeys == {LogLevel}
SetValues == {Null, Str("debug")}
SetTyped == {Typed("i64", "10")}

NoOp == [op |-> "new"]

Init ==
    /\ providers = PPNew.providers
    /\ priority = PPNew.priority
    /\ lowest_priority = PPNew.lowest_priority
    /\ upper_priority = PPNew.upper_priority
    /\ root = NoneV
    /\ files = SpecFiles
    /\ dirs = SpecDirs
    /\ readonly = {}
    /\ env = SpecEnv
    /\ aborted = FALSE
    /\ reg = <<>>
    /\ config_json = NoneV
    /\ lastOp = NoOp

SetPP(pp) ==
    /\ providers' = pp.providers
    /\ priority' = pp.priority
    /\ lowest_priority' = pp.lowest_priority
    /\ upper_priority' = pp.upper_priority

SetFs(fs) ==
    /\ files' = fs.files
    /\ dirs' = fs.dirs
    /\ readonly' = fs.ro

\* The slot key a registration stored its item at: the key the collection
\* tracks after the call and did not track before (history only).
StoredAt(before, after) ==
    IF after.priority \ before.priority = {} THEN before.upper_priority
    ELSE CHOOSE k \in after.priority \ before.priority : TRUE

\* ConfigProvider::register_default
RegisterDefault(c) ==
    /\ ~ aborted
    /\ Cardinality(priority) < MaxSources
    /\ SetPP(Add(PP, c))
    /\ lastOp' = [op |-> "register_default", item |-> c, before |-> Iter(PP)]
    /\ reg' = Append(reg, [slot |-> StoredAt(PP, Add(PP, c)), scope |-> "default"])
    /\ UNCHANGED config_json
    /\ UNCHANGED <<root, files, dirs, readonly, env, aborted>>

\* ConfigProvider::register_top
RegisterTop(c) ==
    /\ ~ aborted
    /\ Cardinality(priority) < MaxSources
    /\ SetPP(AddTop(PP, c))
    /\ lastOp' = [op |-> "register_top", item |-> c, before |-> Iter(PP)]
    /\ reg' = Append(reg, [slot |-> StoredAt(PP, AddTop(PP, c)), scope |-> "top"])
    /\ UNCHANGED config_json
    /\ UNCHANGED <<root, files, dirs, readonly, env, aborted>>

\* ConfigProvider::get_value
GetValue(key) ==
    /\ ~ aborted
    /\ lastOp' = [op |-> "get_value", key |-> key, res |-> ProviderGetValue(PP, key, env)]
    /\ UNCHANGED config_json
    /\ UNCHANGED <<providers, priority, lowest_priority, upper_priority, root,
                   files, dirs, readonly, env, aborted, reg>>

\* ConfigProvider::get
Get(key, ty) ==
    /\ ~ aborted
    /\ lastOp' = [op |-> "get", key |-> key, ty |-> ty, res |-> ProviderGet(PP, key, ty, env)]
    /\ UNCHANGED config_json
    /\ UNCHANGED <<providers, priority, lowest_priority, upper_priority, root,
                   files, dirs, readonly, env, aborted, reg>>

\* ConfigProvider::set_value
SetValue(key, value) ==
    /\ ~ aborted
    /\ LET r == ProviderSetValue(PP, key, value)
       IN  /\ SetPP(r.pp)
           /\ aborted' = ~ r.ok
           /\ lastOp' = [op |-> "set_value", key |-> key, val |-> value]
    /\ UNCHANGED config_json
    /\ UNCHANGED <<root, files, dirs, readonly, env, reg>>

\* ConfigProvider::set
Set(key, tv) ==
    /\ ~ aborted
    /\ LET r == ProviderSet(PP, key, tv)
       IN  /\ SetPP(r.pp)
           /\ aborted' = ~ r.ok
           /\ lastOp' = [op |-> "set", key |-> key, val |-> tv]
    /\ UNCHANGED config_json
    /\ UNCHANGED <<root, files, dirs, readonly, env, reg>>

\* The slots of the documents sync() has to save: not synced and writable.
DirtySlots(pp) ==
    SelectSeq(SortKeys(pp.priority),
              LAMBDA k : /\ k \in DOMAIN pp.providers
                         /\ pp.providers[k].kind = "json"
                         /\ ~ pp.providers[k].is_synced
                         /\ pp.providers[k].can_write)

\* ConfigProvider::sync
Sync ==
    /\ ~ aborted
    /\ LET r == ProviderSync(PP, Fs)
       IN  /\ SetPP(r.pp)
           /\ SetFs(r.fs)
           /\ aborted' = r.panic
           /\ lastOp' = [op |-> "sync", res |-> r.result, dirty |-> DirtySlots(PP)]
    /\ UNCHANGED config_json
    /\ UNCHANGED <<root, env, reg>>

\* The environment of the process: a file becomes unwritable.
MakeReadOnly(p) ==
    /\ ~ aborted
    /\ p \in DOMAIN files
    /\ p \notin readonly
    /\ readonly' = readonly \cup {p}
    /\ lastOp' = [op |-> "chmod", path |-> p]
    /\ UNCHANGED config_json
    /\ UNCHANGED <<providers, priority, lowest_priority, upper_priority, root,
                   files, dirs, env, aborted, reg>>

\* Registrations, reads and in-memory writes in any order.
Next ==
    \/ \E c \in Candidates(Fs) : RegisterDefault(c)
    \/ \E c \in Candidates(Fs) : RegisterTop(c)
    \/ \E k \in OpKeys : GetValue(k)
    \/ \E k \in OpKeys, ty \in Types : Get(k, ty)
    \/ \E k \in OpKeys, v \in SetValues : SetValue(k, v)
    \/ \E k \in OpKeys, tv \in SetTyped : Set(k, tv)

Spec == Init /\ [][Next]_vars

\* Registrations of documents, in-memory writes and sync() in any order,
\* while a file may become unwritable (specification SpecSync).
SyncCandidates(fs) ==
    {r.doc : r \in {x \in {JsonFromData(TextLog("error")),
                           JsonFromFile(FileA, fs), JsonFromFile(FileB, fs)} : x.ok}}
    \cup {JsonNew(ConfigFile(FileB), TRUE), ConfigEnv(TRUE, NoneV), ConfigNone}

NextSync ==
    \/ \E c \in SyncCandidates(Fs) : RegisterDefault(c)
    \/ \E c \in SyncCandidates(Fs) : RegisterTop(c)
    \/ \E k \in OpKeys : SetValue(k, Str("debug"))
    \/ Sync
    \/ MakeReadOnly(FileA)

SpecSync == Init /\ [][NextSync]_vars

----------------------------------------------------------------------------
(* A PriorityProvider used on its own (specification SpecPP).              *)

\* The items stored and the slot keys set_at is called with.
PPItems == {ConfigNone, ConfigEnv(TRUE, NoneV), ConfigEnv(FALSE, NoneV)}
MaxPos == 2
Positions == (0 - MaxPos)..MaxPos

\* PriorityProvider::set_at
PPSetAt(pos, item) ==
    /\ pos \in priority \/ Cardinality(priority) < MaxSources
    /\ SetPP(SetAt(PP, pos, item))
    /\ lastOp' = [op |-> "set_at", pos |-> pos, item |-> item,
                  occupied |-> pos \in DOMAIN providers]
    /\ UNCHANGED <<root, files, dirs, readonly, env, aborted, reg, config_json>>

\* PriorityProvider::add
PPAdd(item) ==
    /\ Cardinality(priority) < MaxSources
    /\ SetPP(Add(PP, item))
    /\ lastOp' = [op |-> "add", pos |-> upper_priority + 1, item |-> item]
    /\ UNCHANGED <<root, files, dirs, readonly, env, aborted, reg, config_json>>

\* PriorityProvider::add_top
PPAddTop(item) ==
    /\ Cardinality(priority) < MaxSources
    /\ SetPP(AddTop(PP, item))
    /\ lastOp' = [op |-> "add_top", pos |-> lowest_priority - 1, item |-> item]
    /\ UNCHANGED <<root, files, dirs, readonly, env, aborted, reg, config_json>>

\* The closures handed to each_mut and map_mut: one that replaces every
\* item by c, and for map_mut one that leaves the items and returns a value
\* for the environment sources only.
EachClosures == {[i \in PPItems |-> c] : c \in PPItems}
MapClosures ==
    {[i \in PPItems |-> [p |-> c, res |-> Some("Ok")]] : c \in PPItems}
    \cup {[i \in PPItems |-> [p |-> i,
                              res |-> IF i.kind = "env" THEN Some("Ok") ELSE NoneV]]}

\* PriorityProvider::each_mut
PPEachMut(f) ==
    /\ ~ aborted
    /\ LET r == EachMut(PP, SortKeys(priority), f)
       IN  /\ SetPP(r.pp)
           /\ aborted' = r.panic
    /\ lastOp' = [op |-> "each_mut"]
    /\ UNCHANGED <<root, files, dirs, readonly, env, reg, config_json>>

\* PriorityProvider::map_mut
PPMapMut(f) ==
    /\ ~ aborted
    /\ LET r == MapMut(PP, SortKeys(priority), f, <<>>)
       IN  /\ SetPP(r.pp)
           /\ aborted' = r.panic
           /\ lastOp' = [op |-> "map_mut", res |-> r.result]
    /\ UNCHANGED <<root, files, dirs, readonly, env, reg, config_json>>

NextPP ==
    \/ \E pos \in Positions, item \in PPItems : PPSetAt(pos, item)
    \/ \E item \in PPItems : PPAdd(item)
    \/ \E item \in PPItems : PPAddTop(item)
    \/ \E f \in EachClosures : PPEachMut(f)
    \/ \E f \in MapClosures : PPMapMut(f)

SpecPP == Init /\ [][NextPP]_vars

----------------------------------------------------------------------------
(* A source used on its own (specification SpecSource).                    *)

\* The sources a caller can hold.
LoneSources(fs) ==
    {r.doc : r \in {x \in {JsonFromData(TextLog("error")),
                           JsonFromFile(FileA, fs)} : x.ok}}
    \cup {JsonNew(ConfigFile(FileB), TRUE), ConfigNone,
          ConfigEnv(TRUE, NoneV), ConfigEnv(FALSE, NoneV), ConfigEnv(TRUE, Some("SH"))}

InitSource ==
    /\ providers = PPNew.providers
    /\ priority = PPNew.priority
    /\ lowest_priority = PPNew.lowest_priority
    /\ upper_priority = PPNew.upper_priority
    /\ root = NoneV
    /\ files = SpecFiles
    /\ dirs = SpecDirs
    /\ readonly = {}
    /\ env = SpecEnv
    /\ aborted = FALSE
    /\ reg = <<>>
    /\ config_json \in LoneSources([files |-> SpecFiles, dirs |-> SpecDirs, ro |-> {}])
    /\ lastOp = NoOp

\* Config::get
SrcGet(key, ty) ==
    /\ ~ aborted
    /\ lastOp' = [op |-> "config_get", key |-> key, ty |-> ty,
                  res |-> ConfigGet(config_json, key, ty, env)]
    /\ UNCHANGED <<providers, priority, lowest_priority, upper_priority, root,
                   files, dirs, readonly, env, aborted, reg, config_json>>

\* Config::get_value
SrcGetValue(key) ==
    /\ ~ aborted
    /\ lastOp' = [op |-> "config_get_value", key |-> key,
                  res |-> ConfigGetValue(config_json, key, env)]
    /\ UNCHANGED <<providers, priority, lowest_priority, upper_priority, root,
                   files, dirs, readonly, env, aborted, reg, config_json>>

\* Config::set
SrcSet(key, tv) ==
    /\ ~ aborted
    /\ LET r == ConfigSet(config_json, key, tv)
       IN  /\ config_json' = r.c
           /\ aborted' = r.panic
           /\ lastOp' = [op |-> "config_set", key |-> key, val |-> tv, res |-> r.applied]
    /\ UNCHANGED <<providers, priority, lowest_priority, upper_priority, root,
                   files, dirs, readonly, env, reg>>

\* Config::set_value
SrcSetValue(key, value) ==
    /\ ~ aborted
    /\ LET r == ConfigSetValue(config_json, key, value)
       IN  /\ config_json' = r.c
           /\ aborted' = r.panic
           /\ lastOp' = [op |-> "config_set_value", key |-> key, val |-> value,
                         res |-> r.applied]
    /\ UNCHANGED <<providers, priority, lowest_priority, upper_priority, root,
                   files, dirs, readonly, env, reg>>

\* Config::save
SrcSave ==
    /\ ~ aborted
    /\ LET r == ConfigSave(config_json, Fs)
       IN  /\ config_json' = r.c
           /\ SetFs(r.fs)
           /\ lastOp' = [op |-> "config_save", ok |-> r.ok]
    /\ UNCHANGED <<providers, priority, lowest_priority, upper_priority, root,
                   env, aborted, reg>>

\* Config::load
SrcLoad ==
    /\ ~ aborted
    /\ LET r == ConfigLoad(config_json, Fs)
       IN  /\ config_json' = r.c
           /\ lastOp' = [op |-> "config_load", ok |-> r.ok]
    /\ UNCHANGED <<providers, priority, lowest_priority, upper_priority, root,
                   files, dirs, readonly, env, aborted, reg>>

NextSource ==
    \/ \E k \in Keys, ty \in Types : SrcGet(k, ty)
    \/ \E k \in Keys : SrcGetValue(k)
    \/ \E k \in OpKeys, tv \in SetTyped : SrcSet(k, tv)
    \/ \E k \in OpKeys, v \in SetValues : SrcSetValue(k, v)
    \/ SrcSave
    \/ SrcLoad

SpecSource == InitSource /\ [][NextSource]_vars

----------------------------------------------------------------------------
(* A ConfigJson used on its own (specification SpecDoc).                   *)

\* The texts a file or a buffer holds: objects, a null root, a string
\* root, a text that is not JSON.
DocTexts == {TextEmptyObject, TextLog("trace"), <<"null">>, <<Quote("debug")>>, <<"{">>}
DocIos == {ConfigFile(FileA)} \cup {ConfigData(t) : t \in DocTexts}

InitDoc ==
    /\ providers = PPNew.providers
    /\ priority = PPNew.priority
    /\ lowest_priority = PPNew.lowest_priority
    /\ upper_priority = PPNew.upper_priority
    /\ root = NoneV
    /\ files \in {[p \in {FileA} |-> t] : t \in DocTexts} \cup {[p \in {} |-> <<>>]}
    /\ dirs = SpecDirs
    /\ readonly = {}
    /\ env = SpecEnv
    /\ aborted = FALSE
    /\ reg = <<>>
    /\ config_json = NoneV
    /\ lastOp = NoOp

\* ConfigJson::new
DocNew(io, can_write) ==
    /\ ~ aborted
    /\ config_json' = JsonNew(io, can_write)
    /\ lastOp' = [op |-> "json_new"]
    /\ UNCHANGED <<providers, priority, lowest_priority, upper_priority, root,
                   files, dirs, readonly, env, aborted, reg>>

\* ConfigJson::from_file: the document, or an error and no document
DocFromFile(path) ==
    /\ ~ aborted
    /\ LET r == JsonFromFile(path, Fs)
       IN  /\ config_json' = IF r.ok THEN r.doc ELSE config_json
           /\ lastOp' = [op |-> "from_file", ok |-> r.ok]
    /\ UNCHANGED <<providers, priority, lowest_priority, upper_priority, root,
                   files, dirs, readonly, env, aborted, reg>>

\* ConfigJson::from_data: the document, or an error and no document
DocFromData(text) ==
    /\ ~ aborted
    /\ LET r == JsonFromData(text)
       IN  /\ config_json' = IF r.ok THEN r.doc ELSE config_json
           /\ lastOp' = [op |-> "from_data", ok |-> r.ok]
    /\ UNCHANGED <<providers, priority, lowest_priority, upper_priority, root,
                   files, dirs, readonly, env, aborted, reg>>

\* ConfigJson::load
DocLoad ==
    /\ ~ aborted
    /\ config_json # NoneV
    /\ LET r == JsonLoad(config_json, Fs)
       IN  /\ config_json' = r.doc
           /\ lastOp' = [op |-> "load", ok |-> r.ok]
    /\ UNCHANGED <<providers, priority, lowest_priority, upper_priority, root,
                   files, dirs, readonly, env, aborted, reg>>

\* ConfigJson::get_value
DocGetValue(key) ==
    /\ ~ aborted
    /\ config_json # NoneV
    /\ lastOp' = [op |-> "json_get_value", key |-> key,
                  res |-> JsonGetValue(config_json, key)]
    /\ UNCHANGED <<providers, priority, lowest_priority, upper_priority, root,
                   files, dirs, readonly, env, aborted, reg, config_json>>

\* ConfigJson::set_value
DocSetValue(key, value) ==
    /\ ~ aborted
    /\ config_json # NoneV
    /\ LET r == JsonSetValue(config_json, key, value)
       IN  /\ config_json' = r.doc
           /\ aborted' = ~ r.ok
           /\ lastOp' = [op |-> "json_set_value", key |-> key, val |-> value,
                         loaded |-> JsonIsLoaded(config_json)]
    /\ UNCHANGED <<providers, priority, lowest_priority, upper_priority, root,
                   files, dirs, readonly, env, reg>>

\* ConfigJson::set
DocSet(key, tv) ==
    /\ ~ aborted
    /\ config_json # NoneV
    /\ LET r == JsonSet(config_json, key, tv)
       IN  /\ config_json' = r.doc
           /\ aborted' = ~ r.ok
           /\ lastOp' = [op |-> "json_set", key |-> key, val |-> tv,
                         loaded |-> JsonIsLoaded(config_json)]
    /\ UNCHANGED <<providers, priority, lowest_priority, upper_priority, root,
                   files, dirs, readonly, env, reg>>

\* ConfigJson::save
DocSave ==
    /\ ~ aborted
    /\ config_json # NoneV
    /\ LET r == JsonSave(config_json, Fs)
       IN  /\ config_json' = r.doc
           /\ SetFs(r.fs)
           /\ lastOp' = [op |-> "save", ok |-> r.ok]
    /\ UNCHANGED <<providers, priority, lowest_priority, upper_priority, root,
                   env, aborted, reg>>

NextDoc ==
    \/ \E io \in DocIos, cw \in BOOLEAN : DocNew(io, cw)
    \/ DocFromFile(FileA)
    \/ \E t \in DocTexts : DocFromData(t)
    \/ DocLoad
    \/ \E k \in OpKeys : DocGetValue(k)
    \/ \E k \in OpKeys, v \in SetValues : DocSetValue(k, v)
    \/ \E k \in OpKeys, tv \in SetTyped : DocSet(k, tv)
    \/ DocSave
    \/ MakeReadOnly(FileA)

SpecDoc == InitDoc /\ [][NextDoc]_vars

----------------------------------------------------------------------------
(* config/mod.rs: the bootstrap (specification SpecBoot).                  *)

\* PathBuf::from(string) and Path::is_relative
PathFrom(str) ==
    IF str = "../myrepo" THEN [relative |-> TRUE, path |-> <<"..", "myrepo">>]
    ELSE IF str = "/srv/repo" THEN [relative |-> FALSE, path |-> <<"srv", "repo">>]
    ELSE IF str = "/work" THEN [relative |-> FALSE, path |-> <<"work">>]
    ELSE [relative |-> TRUE, path |-> <<str>>]

\* std::fs::create_dir_all: every missing component of the path as written
\* is created, from the top; ".." steps back from a directory that exists
\* by then; a component that is a file ends it with an error, the
\* directories made before it stay.
RECURSIVE CreateDirAll(_, _, _)
CreateDirAll(fs, p, acc) ==
    IF p = <<>> THEN [ok |-> TRUE, fs |-> fs]
    ELSE IF Head(p) = ".."
    THEN CreateDirAll(fs, Tail(p),
                      IF acc = <<>> THEN <<>> ELSE SubSeq(acc, 1, Len(acc) - 1))
    ELSE IF Append(acc, Head(p)) \in DOMAIN fs.files THEN [ok |-> FALSE, fs |-> fs]
    ELSE CreateDirAll([fs EXCEPT !.dirs = fs.dirs \cup {Append(acc, Head(p))}],
                      Tail(p), Append(acc, Head(p)))

\* AppConfig::ensure_file
EnsureFile(fs, path) ==
    IF PathExists(fs, path) THEN [ok |-> TRUE, fs |-> fs]
    ELSE IF CanWriteFile(fs, path)
    THEN [ok |-> TRUE, fs |-> WriteFile(fs, path, TextEmptyObject)]
    ELSE [ok |-> FALSE, fs |-> fs]

\* AppConfig::ensure_dir
EnsureDir(fs, path) ==
    IF PathExists(fs, path) THEN [ok |-> TRUE, fs |-> fs]
    ELSE CreateDirAll(fs, path, <<>>)

\* AppConfig::create_folder_config, after ensure_dir: the file
\* folder_config_path of the folder.  (The file system after each step is
\* bound by a quantifier, so that it is a value and not an expression
\* evaluated again at each use.)
FolderConfigIn(fs, folder_config_path, create) ==
    IF ~ PathExists(fs, folder_config_path) /\ ~ create
    THEN [ok |-> TRUE, fs |-> fs, config |-> ConfigNone]
    ELSE CHOOSE res \in
           {IF ~ f.ok THEN [ok |-> FALSE, fs |-> f.fs, config |-> ConfigNone]
            ELSE CHOOSE res2 \in
                   {[ok |-> cfg.ok, fs |-> f.fs,
                     config |-> IF cfg.ok THEN cfg.doc ELSE ConfigNone] :
                       cfg \in {JsonFromFile(folder_config_path, f.fs)}} : TRUE :
               f \in {EnsureFile(fs, folder_config_path)}} : TRUE

\* Mutant of CreateFolderConfig: the folder and its file are created
\* whatever the flag says.
CreateFolderConfigAlwaysCreates(fs, path, create) ==
    CHOOSE res \in
      {IF ~ d.ok THEN [ok |-> FALSE, fs |-> d.fs, config |-> ConfigNone]
       ELSE FolderConfigIn(d.fs, Join(path, <<ConfigFileName>>), TRUE) :
          d \in {EnsureDir(fs, path)}} : TRUE

\* AppConfig::create_folder_config
CreateFolderConfig(fs, path, create) ==
    IF ~ PathExists(fs, path) /\ ~ create THEN [ok |-> TRUE, fs |-> fs, config |-> ConfigNone]
    ELSE CHOOSE res \in
           {IF ~ d.ok THEN [ok |-> FALSE, fs |-> d.fs, config |-> ConfigNone]
            ELSE FolderConfigIn(d.fs, Join(path, <<ConfigFileName>>), create) :
               d \in {EnsureDir(fs, path)}} : TRUE

\* AppConfig::create_machine_config
CreateMachineConfig(fs, path) ==
    CHOOSE res \in
      {IF ~ f.ok THEN [ok |-> FALSE, fs |-> f.fs, config |-> ConfigNone]
       ELSE CHOOSE res2 \in
              {[ok |-> cfg.ok, fs |-> f.fs,
                config |-> IF cfg.ok THEN cfg.doc ELSE ConfigNone] :
                  cfg \in {JsonFromFile(path, f.fs)}} : TRUE :
          f \in {EnsureFile(fs, path)}} : TRUE

\* Mutant of InternalGetRepoPath: a relative path is joined to the root
\* file itself, parent() is not taken.
InternalGetRepoPathNoParent(path, root_file) ==
    IF path = NoneV THEN NoneV
    ELSE LET pb == PathFrom(path.x.val)
         IN  IF pb.relative THEN Some(Join(root_file, pb.path)) ELSE Some(pb.path)

\* AppConfig::internal_get_repo_path
InternalGetRepoPath(path, root_file) ==
    IF path = NoneV THEN NoneV
    ELSE LET pb == PathFrom(path.x.val)
         IN  IF pb.relative
             THEN LET parent == Parent(root_file)
                      base == IF parent # NoneV THEN parent.x ELSE root_file
                  IN  Some(Join(base, pb.path))
             ELSE Some(pb.path)

\* AppConfig::create_repo_config
CreateRepoConfig(fs, machine_config, root_file) ==
    LET repo_var == JsonGet(machine_config, RepoPath, "String")
        repo_path == InternalGetRepoPath(repo_var, root_file)
    IN  IF repo_path # NoneV THEN CreateFolderConfig(fs, repo_path.x, TRUE)
        ELSE [ok |-> TRUE, fs |-> fs, config |-> ConfigNone]

\* Path::canonicalize: fails on a path that does not exist
Canonicalize(fs, path) ==
    IF PathExists(fs, path) THEN [ok |-> TRUE, path |-> Resolve(fs, path).x] ELSE [ok |-> FALSE]

\* AppConfig::from_json, on the file system fs with working directory cwd:
\* the registrations in order, or an error.
FromJsonResult(fs, json_path, cwd) ==
    CHOOSE res \in
      {IF ~ c.ok THEN [ok |-> FALSE, fs |-> fs]
       ELSE CHOOSE res1 \in
         {IF ~ m.ok THEN [ok |-> FALSE, fs |-> m.fs]
          ELSE CHOOSE res2 \in
            {IF ~ w.ok THEN [ok |-> FALSE, fs |-> w.fs]
             ELSE CHOOSE res3 \in
               {IF ~ r.ok THEN [ok |-> FALSE, fs |-> r.fs]
                ELSE [ok |-> TRUE, fs |-> r.fs, root |-> c.path,
                      pp |-> Add(Add(Add(PPNew, m.config), w.config), r.config)] :
                   r \in {CreateRepoConfig(w.fs, m.config, c.path)}} : TRUE :
                w \in {CreateFolderConfig(m.fs, cwd, FALSE)}} : TRUE :
             m \in {CreateMachineConfig(fs, json_path)}} : TRUE :
          c \in {Canonicalize(fs, json_path)}} : TRUE

\* The machine config file the process is started with, and its working
\* directory.
MachinePath == <<"home", "u", ConfigFileName>>
Cwd == <<"work">>
CwdConfigPath == Join(Cwd, <<ConfigFileName>>)

TextRepo(path) == <<"{", Quote(RepoPath), ":", " ", Quote(path), "}">>

\* The machine files, working directories and environments the bootstrap is
\* run on.
BootMachineTexts ==
    {TextEmptyObject, TextLog("error"), TextRepo("../myrepo"), TextRepo("/srv/repo"),
     TextRepo("/work")}
BootFiles ==
    {[p \in {} |-> TextEmptyObject]}
    \cup {[p \in {MachinePath} |-> t] : t \in BootMachineTexts}
    \cup {[p \in {MachinePath, CwdConfigPath} |->
              IF p = MachinePath THEN t ELSE TextLog("trace")] : t \in BootMachineTexts}
BootDirs == {<<>>, <<"home">>, <<"home", "u">>, Cwd}
EnvPrefix == "SH_"
BootEnvs == {[n \in {"SH_core.log.level"} |-> "trace"],
             [n \in {"SH__core.log.level"} |-> "trace"]}

\* What the command line writes (run_config sets a String) and what other
\* callers of the resolver write.
BootSetTyped == {Typed("String", "debug")}

InitBoot ==
    /\ providers = PPNew.providers
    /\ priority = PPNew.priority
    /\ lowest_priority = PPNew.lowest_priority
    /\ upper_priority = PPNew.upper_priority
    /\ root = NoneV
    /\ files \in BootFiles
    /\ dirs = BootDirs
    /\ readonly = {}
    /\ env \in BootEnvs
    /\ aborted = FALSE
    /\ reg = <<>>
    /\ config_json = NoneV
    /\ lastOp = NoOp

\* main: AppConfig::from_json(json_path).unwrap(), once per process; an
\* error of from_json is a panic at the unwrap.
FromJson(json_path) ==
    /\ ~ aborted
    /\ root = NoneV
    /\ \E r \in {FromJsonResult(Fs, json_path, Cwd)} :
           /\ SetFs(r.fs)
           /\ lastOp' = [op |-> "from_json", ok |-> r.ok,
                         existed |-> FileExists(Fs, json_path)]
           /\ IF r.ok
              THEN /\ SetPP(r.pp)
                   /\ root' = Some(r.root)
                   /\ reg' = <<[slot |-> 1, scope |-> "machine"],
                               [slot |-> 2, scope |-> "cwd"],
                               [slot |-> 3, scope |-> "project"]>>
              ELSE UNCHANGED <<providers, priority, lowest_priority, upper_priority,
                               root, reg>>
           /\ aborted' = ~ r.ok
    /\ UNCHANGED config_json
    /\ UNCHANGED env

\* AppConfig::use_env
UseEnv ==
    /\ ~ aborted
    /\ root # NoneV
    /\ Cardinality(priority) < MaxSources + 1
    /\ SetPP(AddTop(PP, ConfigEnv(TRUE, Some(EnvPrefix))))
    /\ reg' = Append(reg, [slot |-> lowest_priority - 1, scope |-> "env"])
    /\ lastOp' = [op |-> "use_env"]
    /\ UNCHANGED config_json
    /\ UNCHANGED <<root, files, dirs, readonly, env, aborted>>

Booted == root # NoneV

\* AppConfig::new(root): the given root, a resolver with no source
AppNew(root_path) ==
    /\ ~ aborted
    /\ root = NoneV
    /\ root' = Some(root_path)
    /\ SetPP(PPNew)
    /\ lastOp' = [op |-> "app_new"]
    /\ UNCHANGED config_json
    /\ UNCHANGED <<files, dirs, readonly, env, aborted, reg>>

\* run_config with a value: provider.set(key, value) and then
\* provider.sync(), one call of the command line.
RunConfigSet(key, tv) ==
    /\ ~ aborted
    /\ \E s \in {ProviderSet(PP, key, tv)} : \E y \in {ProviderSync(s.pp, Fs)} :
           IF ~ s.ok
           THEN /\ aborted' = TRUE
                /\ lastOp' = [op |-> "run_config", key |-> key, val |-> tv, res |-> <<>>]
                /\ UNCHANGED <<providers, priority, lowest_priority, upper_priority,
                               files, dirs, readonly>>
           ELSE /\ SetPP(y.pp)
                /\ SetFs(y.fs)
                /\ aborted' = y.panic
                /\ lastOp' = [op |-> "run_config", key |-> key, val |-> tv,
                              res |-> y.result]
    /\ UNCHANGED config_json
    /\ UNCHANGED <<root, env, reg>>

NextBoot ==
    \/ FromJson(MachinePath)
    \/ AppNew(MachinePath)
    \/ UseEnv
    \/ \E k \in Keys : Booted /\ GetValue(k)
    \/ \E k \in Keys, ty \in Types : Booted /\ Get(k, ty)
    \/ \E k \in OpKeys, v \in SetValues : Booted /\ SetValue(k, v)
    \/ \E k \in Keys, tv \in BootSetTyped : Booted /\ Set(k, tv)
    \/ Booted /\ Sync
    \/ \E k \in Keys, tv \in BootSetTyped : Booted /\ RunConfigSet(k, tv)

SpecBoot == InitBoot /\ [][NextBoot]_vars

----------------------------------------------------------------------------
(* Properties of the resolver.                                             *)

\* The slots above slot s (visited before it) and the sources that answer a
\* read of key: a raw read, or a typed read of type ty.
DefinesRaw(s, key) == ConfigGetValue(providers[s], key, env) # NoneV
DefinesTyped(s, key, ty) == ConfigGet(providers[s], key, ty, env) # NoneV
JsonSlots == {s \in DOMAIN providers : providers[s].kind = "json"}

\* C1: first-match law.  For two registered sources S1 (lower slot key)
\* and S2 (higher slot key) that both define K with different values, where
\* no source above S1 defines K, get_value(K) and get(K) return S1's value
\* and not S2's.  A source defines K when its own read of K (raw for
\* get_value, of the requested type for get) returns a value.
C1_FirstMatch ==
    /\ lastOp.op = "get_value" =>
         \A s1, s2 \in DOMAIN providers :
            ( /\ s1 < s2
              /\ DefinesRaw(s1, lastOp.key) /\ DefinesRaw(s2, lastOp.key)
              /\ ConfigGetValue(providers[s1], lastOp.key, env)
                   # ConfigGetValue(providers[s2], lastOp.key, env)
              /\ \A s0 \in DOMAIN providers : s0 < s1 => ~ DefinesRaw(s0, lastOp.key) )
            => /\ lastOp.res = ConfigGetValue(providers[s1], lastOp.key, env)
               /\ lastOp.res # ConfigGetValue(providers[s2], lastOp.key, env)
    /\ lastOp.op = "get" =>
         \A s1, s2 \in DOMAIN providers :
            ( /\ s1 < s2
              /\ DefinesTyped(s1, lastOp.key, lastOp.ty)
              /\ DefinesTyped(s2, lastOp.key, lastOp.ty)
              /\ ConfigGet(providers[s1], lastOp.key, lastOp.ty, env)
                   # ConfigGet(providers[s2], lastOp.key, lastOp.ty, env)
              /\ \A s0 \in DOMAIN providers :
                    s0 < s1 => ~ DefinesTyped(s0, lastOp.key, lastOp.ty) )
            => /\ lastOp.res = ConfigGet(providers[s1], lastOp.key, lastOp.ty, env)
               /\ lastOp.res # ConfigGet(providers[s2], lastOp.key, lastOp.ty, env)

\* Witness of C1: a raw read answered by the upper of two sources that
\* define the key with different values.
C1_Witness ==
    /\ lastOp.op = "get_value"
    /\ \E s1, s2 \in DOMAIN providers :
          /\ s1 < s2
          /\ DefinesRaw(s1, lastOp.key) /\ DefinesRaw(s2, lastOp.key)
          /\ ConfigGetValue(providers[s1], lastOp.key, env)
               # ConfigGetValue(providers[s2], lastOp.key, env)
          /\ lastOp.res = ConfigGetValue(providers[s1], lastOp.key, env)

\* The precondition of the round-trip law after a write of key: a JSON
\* document is registered and no source above the first one defines key.
FirstJsonSlot == CHOOSE s \in JsonSlots : \A t \in JsonSlots : s <= t
NotShadowedRaw(key) ==
    /\ JsonSlots # {}
    /\ \A s0 \in DOMAIN providers : s0 < FirstJsonSlot => ~ DefinesRaw(s0, key)
NotShadowedTyped(key, ty) ==
    /\ JsonSlots # {}
    /\ \A s0 \in DOMAIN providers : s0 < FirstJsonSlot => ~ DefinesTyped(s0, key, ty)

\* C2 as claimed: round-trip law for every key K and every JSON value V.
\* After set_value(K, V) the read get_value(K) returns V, and after
\* set(K, v) the read get(K) of the same type returns v, when a JSON
\* document is registered and no source of higher precedence defines K.
C2_RoundTripAnyValue ==
    /\ (lastOp.op = "set_value" /\ ~ aborted /\ NotShadowedRaw(lastOp.key))
         => ProviderGetValue(PP, lastOp.key, env) = Some(lastOp.val)
    /\ (lastOp.op = "set" /\ ~ aborted /\ NotShadowedTyped(lastOp.key, lastOp.val.ty))
         => ProviderGet(PP, lastOp.key, lastOp.val.ty, env) = Some(lastOp.val)

\* C2 as amended: the round-trip law for every key K and every JSON value
\* V other than null.
C2_RoundTripNonNull ==
    /\ (lastOp.op = "set_value" /\ ~ aborted /\ NotShadowedRaw(lastOp.key)
          /\ lastOp.val # Null)
         => ProviderGetValue(PP, lastOp.key, env) = Some(lastOp.val)
    /\ (lastOp.op = "set" /\ ~ aborted /\ NotShadowedTyped(lastOp.key, lastOp.val.ty))
         => ProviderGet(PP, lastOp.key, lastOp.val.ty, env) = Some(lastOp.val)

\* Witness of C2: a non-null value written over another value of the first
\* document, with a lower source that defines the key too.
C2_Witness ==
    /\ lastOp.op = "set_value" /\ lastOp.val # Null /\ ~ aborted
    /\ NotShadowedRaw(lastOp.key)
    /\ Cardinality(JsonSlots) >= 2
    /\ \E s \in DOMAIN providers : s > FirstJsonSlot /\ DefinesRaw(s, lastOp.key)

\* C3: a source registered with register_top is visited before every
\* source registered so far, in whatever order these were registered with
\* register_default and register_top, and these keep their order.
C3_TopOutranksAll ==
    lastOp.op = "register_top" =>
        /\ Iter(PP) = <<lastOp.item>> \o lastOp.before
        /\ \A s \in priority : lowest_priority <= s
        /\ providers[lowest_priority] = lastOp.item

\* Witness of C3: register_top after an earlier register_top and an
\* earlier register_default.
C3_Witness ==
    /\ lastOp.op = "register_top"
    /\ Len(lastOp.before) >= 2
    /\ lowest_priority <= -2
    /\ upper_priority >= 1

\* The collection with key dropped from the document at slot s.
WithoutKey(pp, s, key) ==
    [pp EXCEPT !.providers[s].data =
        Some(Obj([x \in DOMAIN pp.providers[s].data.x.m \ {key} |->
                     pp.providers[s].data.x.m[x]]))]
HoldsNull(c, key) ==
    /\ c.kind = "json" /\ c.data # NoneV /\ c.data.x.t = "obj"
    /\ key \in DOMAIN c.data.x.m
    /\ c.data.x.m[key] = Null

\* C4: a key whose stored value is JSON null reads like a missing key.
\* ConfigJson::get_value and ConfigJson::get return nothing for it, and the
\* resolver's reads return what they return with the key removed from the
\* document, so they fall through to the next source.
C4_NullIsAbsent ==
    \A s \in DOMAIN providers : \A key \in Keys :
        HoldsNull(providers[s], key) =>
            /\ JsonGetValue(providers[s], key) = NoneV
            /\ \A ty \in Types : JsonGet(providers[s], key, ty) = NoneV
            /\ ProviderGetValue(PP, key, env)
                 = ProviderGetValue(WithoutKey(PP, s, key), key, env)
            /\ \A ty \in Types :
                 ProviderGet(PP, key, ty, env) = ProviderGet(WithoutKey(PP, s, key), key, ty, env)
            /\ (lastOp.op = "get_value" /\ lastOp.key = key)
                 => lastOp.res = ProviderGetValue(WithoutKey(PP, s, key), key, env)

\* Witness of C4: a read of a key that the first document holds as null
\* and a lower source defines.
C4_Witness ==
    /\ lastOp.op = "get_value"
    /\ lastOp.res # NoneV
    /\ \E s, s2 \in DOMAIN providers :
          /\ s < s2
          /\ HoldsNull(providers[s], lastOp.key)
          /\ \A s0 \in DOMAIN providers : s0 < s => ~ DefinesRaw(s0, lastOp.key)
          /\ DefinesRaw(s2, lastOp.key)

----------------------------------------------------------------------------
(* Properties of sync() (specification SpecSync).                          *)

\* A writable document whose tree is what its file held when it was
\* loaded: it was loaded and never modified.
LoadedUnmodified(c) ==
    /\ c.kind = "json" /\ c.can_write /\ c.io.kind = "file"
    /\ c.io.path \in DOMAIN SpecFiles
    /\ c.data = Some(FromStr(SpecFiles[c.io.path]).v)
\* A writable document that was loaded from its file and holds a key its
\* file did not hold when it was loaded: a set modified it.
LoadedModified(c) ==
    /\ c.kind = "json" /\ c.can_write /\ c.io.kind = "file"
    /\ c.io.path \in DOMAIN SpecFiles
    /\ c.data # NoneV /\ c.data.x.t = "obj"
    /\ \E k \in DOMAIN c.data.x.m :
          \/ k \notin DOMAIN FromStr(SpecFiles[c.io.path]).v.m
          \/ c.data.x.m[k] # FromStr(SpecFiles[c.io.path]).v.m[k]
ReadOnlyDoc(c) == c.kind = "json" /\ ~ c.can_write

\* C5 as claimed: sync() on a resolver holding one writable document that
\* was loaded and never modified, one writable document that a set
\* modified and one read-only document returns exactly one outcome.
C5_OnlyModifiedSaved ==
    ( /\ lastOp.op = "sync"
      /\ Cardinality(DOMAIN providers) = 3
      /\ \E s1, s2, s3 \in DOMAIN providers :
            /\ LoadedModified(providers[s1])
            /\ LoadedUnmodified(providers[s2])
            \* a.json is only ever registered by from_file: s1 was loaded
            /\ providers[s1].io.path = FileA
            /\ providers[s1].io.path # providers[s2].io.path
            /\ ReadOnlyDoc(providers[s3]) )
    => Len(lastOp.res) = 1

\* C6 as claimed: sync() is idempotent.  In every state reached by a
\* sync(), a second sync() returns an empty outcome sequence.
C6_SecondSyncEmpty ==
    (lastOp.op = "sync" /\ ~ aborted) => ProviderSync(PP, Fs).result = <<>>

\* The outcome save() must have for the document at slot s: it fails when
\* the document holds a tree and its file cannot be written.
StoreUnwritable(c) ==
    c.data # NoneV /\ c.io.kind = "file" /\ ~ CanWriteFile(Fs, c.io.path)

\* C7: sync() does not fail fast.  It returns one outcome for each document
\* that was writable and not synced, in slot order, a failure exactly for
\* those whose backing store cannot be written; a failure does not keep the
\* later documents from being saved and does not abort the call; a
\* resolver with one modified document whose store cannot be written
\* returns exactly one failing outcome.
C7_SyncNotFailFast ==
    lastOp.op = "sync" =>
        /\ ~ aborted
        /\ Len(lastOp.res) = Len(lastOp.dirty)
        /\ \A i \in 1..Len(lastOp.dirty) :
              /\ lastOp.dirty[i] \in DOMAIN providers
              /\ (lastOp.res[i] = "Err") <=> StoreUnwritable(providers[lastOp.dirty[i]])
              /\ (lastOp.res[i] = "Ok" /\ providers[lastOp.dirty[i]].data # NoneV)
                    => providers[lastOp.dirty[i]].is_synced
        /\ ( /\ Cardinality(DOMAIN providers) = 1
             /\ \E s \in DOMAIN providers :
                   /\ LoadedModified(providers[s]) /\ ~ providers[s].is_synced
                   /\ StoreUnwritable(providers[s]) )
           => lastOp.res = <<"Err">>

\* Witness of C7: a failing outcome followed by the successful save of a
\* later document.
C7_Witness ==
    /\ lastOp.op = "sync"
    /\ Len(lastOp.res) >= 2
    /\ lastOp.res[1] = "Err"
    /\ lastOp.res[2] = "Ok"
    /\ providers[lastOp.dirty[2]].is_synced
    /\ LoadedModified(providers[lastOp.dirty[1]])

----------------------------------------------------------------------------
(* Properties of the bootstrap (specification SpecBoot).                   *)

RegSlots(scope) == {reg[i].slot : i \in {j \in 1..Len(reg) : reg[j].scope = scope}}
ScopeAt(slot) == (CHOOSE r \in {reg[i] : i \in 1..Len(reg)} : r.slot = slot).scope
\* The history agrees with the collection: every registration is in the
\* collection, at its slot, with the kind of source its scope has.
RegInCollection ==
    /\ priority = {reg[i].slot : i \in 1..Len(reg)}
    /\ DOMAIN providers = priority
    /\ \A s \in RegSlots("env") : providers[s].kind = "env"
    /\ \A s \in RegSlots("machine") :
          providers[s].kind = "json" /\ providers[s].io = ConfigFile(MachinePath)
    /\ \A s \in RegSlots("cwd") :
          \/ providers[s] = ConfigNone
          \/ providers[s].kind = "json" /\ providers[s].io = ConfigFile(CwdConfigPath)
    /\ \A s \in RegSlots("project") :
          \/ providers[s] = ConfigNone
          \/ providers[s].kind = "json" /\ providers[s].io.kind = "file"
               /\ providers[s].io.path # MachinePath
\* The scopes in iteration order.
ScopeOrder == [i \in 1..Len(SortKeys(priority)) |-> ScopeAt(SortKeys(priority)[i])]
EnvUsed == RegSlots("env") # {}
\* The resolver was built by from_json (and not by AppConfig::new alone).
BuiltByFromJson == RegSlots("machine") # {}
MachineDoc == providers[CHOOSE s \in RegSlots("machine") : TRUE]

\* C8 as claimed: with the environment variable SH_core.log.level set to
\* trace and the environment source of use_env on top of a machine
\* document that defines core.log.level = "error", get_value of
\* core.log.level returns "trace"; the environment source looks up the
\* name SH_ followed by the dotted key.
C8_EnvOverridesMachine ==
    ( /\ BuiltByFromJson /\ EnvUsed
      /\ "SH_core.log.level" \in DOMAIN env
      /\ JsonGetValue(MachineDoc, LogLevel) = Some(Str("error")) )
    => /\ \A s \in RegSlots("env") :
             EnvGetKey(providers[s], LogLevel) = "SH_core.log.level"
       /\ (lastOp.op = "get_value" /\ lastOp.key = LogLevel)
             => lastOp.res = Some(Str(env["SH_core.log.level"]))

\* C9: in a resolver built by from_json followed by use_env the sources
\* are iterated in the order environment, machine, working directory,
\* project.
C9_BootOrder ==
    BuiltByFromJson =>
        /\ RegInCollection
        /\ Iter(PP) = [i \in 1..Len(ScopeOrder) |-> providers[SortKeys(priority)[i]]]
        /\ \E n \in 0..Len(ScopeOrder) :
              ScopeOrder = [i \in 1..n |-> "env"] \o <<"machine", "cwd", "project">>
        /\ (Len(reg) = 4 /\ EnvUsed) => ScopeOrder = <<"env", "machine", "cwd", "project">>

\* Witness of C9: use_env after from_json, with a working-directory
\* document and a project document.
C9_Witness ==
    /\ BuiltByFromJson /\ EnvUsed
    /\ lastOp.op = "use_env"
    /\ \A s \in RegSlots("project") : providers[s].kind = "json"
    /\ Iter(PP)[1].kind = "env"

\* The scenario of C10 after the write: no working-directory document, no
\* project document, the key is not defined by a source above the machine
\* document.  The key reads back and is in the machine document.
C10_ReadBack ==
    ( /\ BuiltByFromJson /\ ~ aborted
      /\ lastOp.op = "set" /\ lastOp.key = LogLevel
      /\ lastOp.val = Typed("String", "debug")
      /\ \A s \in RegSlots("cwd") \cup RegSlots("project") : providers[s] = ConfigNone
      /\ NotShadowedTyped(LogLevel, "String") )
    => /\ ProviderGet(PP, LogLevel, "String", env) = Some(Typed("String", "debug"))
       /\ JsonGetValue(MachineDoc, LogLevel) = Some(Str("debug"))

\* C10: in a resolver built by the bootstrap every write through the
\* resolver lands in the machine document and changes neither the
\* working-directory source nor the project source; with no document for
\* these two scopes, core.log.level set to "debug" reads back as "debug"
\* and is in the machine document.
C10_WritesLandInMachine ==
    [][ (BuiltByFromJson /\ lastOp'.op \in {"set", "set_value"} /\ ~ aborted')
        => /\ \A s \in RegSlots("cwd") \cup RegSlots("project") \cup RegSlots("env") :
                 providers'[s] = providers[s]
           /\ MachineDoc'.data # NoneV
           /\ MachineDoc'.data.x.t = "obj"
           /\ lastOp'.key \in DOMAIN MachineDoc'.data.x.m
           /\ MachineDoc'.data.x.m[lastOp'.key]
                = (IF lastOp'.op = "set" THEN ToValue(lastOp'.val) ELSE lastOp'.val)
           /\ ~ MachineDoc'.is_synced
           /\ C10_ReadBack' ]_vars

\* Witness of C10: core.log.level set to "debug" on a machine file {} with
\* neither a working-directory nor a project document, read back.
C10_Witness ==
    /\ BuiltByFromJson /\ ~ aborted
    /\ lastOp.op = "set" /\ lastOp.key = LogLevel
    /\ lastOp.val = Typed("String", "debug")
    /\ \A s \in RegSlots("cwd") \cup RegSlots("project") : providers[s] = ConfigNone
    /\ DOMAIN MachineDoc.data.x.m = {LogLevel}
    /\ ProviderGet(PP, LogLevel, "String", env) = Some(Typed("String", "debug"))

\* The project source and the directory the bootstrap resolved for it.
ProjectDoc == providers[CHOOSE s \in RegSlots("project") : TRUE]
MyRepoDir == <<"home", "myrepo">>
StoredRepoPath == JsonGet(MachineDoc, RepoPath, "String")

\* C11: a relative project path stored in the machine document is resolved
\* against the parent directory of the machine config file, not against
\* the working directory: with /home/u/.config-sh.json holding
\* core.repo.path = "../myrepo" the project directory is /home/myrepo (the
\* directory the path /home/u/../myrepo names), its config file is created
\* and loaded there and nothing is created below the working directory; an
\* absolute stored path is used unchanged.
C11_RelativeToMachineFile ==
    /\ (lastOp.op = "from_json" /\ FileExists(Fs, MachinePath)
          /\ files[MachinePath] = TextRepo("../myrepo")) => lastOp.ok
    /\ (lastOp.op = "from_json" /\ lastOp.ok) =>
        /\ root = Some(MachinePath)
        /\ StoredRepoPath = Some(Typed("String", "../myrepo")) =>
              /\ InternalGetRepoPath(StoredRepoPath, root.x)
                   = Some(Join(Parent(MachinePath).x, <<"..", "myrepo">>))
              /\ Resolve(Fs, InternalGetRepoPath(StoredRepoPath, root.x).x) = Some(MyRepoDir)
              /\ ProjectDoc.kind = "json"
              /\ Resolve(Fs, ProjectDoc.io.path) = Some(Join(MyRepoDir, <<ConfigFileName>>))
              /\ MyRepoDir \in dirs
              /\ Join(MyRepoDir, <<ConfigFileName>>) \in DOMAIN files
              /\ Resolve(Fs, Join(Cwd, <<"..", "myrepo">>)) = Some(<<"myrepo">>)
              /\ <<"myrepo">> \notin dirs
        /\ StoredRepoPath = Some(Typed("String", "/srv/repo")) =>
              /\ InternalGetRepoPath(StoredRepoPath, root.x) = Some(<<"srv", "repo">>)
              /\ ProjectDoc.kind = "json"
              /\ ProjectDoc.io.path = <<"srv", "repo", ConfigFileName>>
              /\ <<"srv", "repo">> \in dirs

\* Witness of C11: the bootstrap ran on a machine file that stores
\* "../myrepo" and loaded the project document of /home/myrepo.
C11_Witness ==
    /\ lastOp.op = "from_json" /\ lastOp.ok
    /\ StoredRepoPath = Some(Typed("String", "../myrepo"))
    /\ ProjectDoc.kind = "json"
    /\ ProjectDoc.data = Some(Obj(EmptyMap))
    /\ MyRepoDir \in dirs

\* C12 as claimed: from_json called with a machine-config path whose file
\* does not exist creates the file containing {} and returns a loaded,
\* writable machine document.
C12_MissingMachineFileCreated ==
    (lastOp.op = "from_json" /\ ~ lastOp.existed) =>
        /\ lastOp.ok
        /\ MachinePath \in DOMAIN files
        /\ files[MachinePath] = TextEmptyObject
        /\ BuiltByFromJson
        /\ MachineDoc.data = Some(Obj(EmptyMap))
        /\ MachineDoc.can_write

----------------------------------------------------------------------------
(* Properties of the JSON document (specification SpecDoc).                *)

\* C13 as claimed: after every successful load, the load of from_file and
\* of from_data included, the synced flag of the document is true.
C13_LoadSetsSynced ==
    (lastOp.op \in {"load", "from_file", "from_data"} /\ lastOp.ok)
        => config_json.is_synced

\* C14 as claimed: after every save that returns success the synced flag of
\* the document is true, whatever the document was before, a document on
\* which nothing was loaded or set included.
C14_SaveSetsSynced ==
    (lastOp.op = "save" /\ lastOp.ok) => config_json.is_synced

\* C15: save on a document with can_write = false returns an error and
\* leaves the synced flag, the data, the buffer and the file system
\* unchanged.
C15_ReadOnlySaveRejected ==
    [][ (config_json # NoneV /\ ~ config_json.can_write /\ lastOp'.op = "save")
        => /\ ~ lastOp'.ok
           /\ config_json' = config_json
           /\ files' = files /\ dirs' = dirs /\ readonly' = readonly ]_vars

\* Witness of C15: a rejected save on a read-only document that holds
\* modified data and a file it could have written.
C15_Witness ==
    /\ lastOp.op = "save" /\ ~ lastOp.ok
    /\ config_json # NoneV
    /\ FileA \in DOMAIN files
    /\ ~ config_json.can_write
    /\ config_json.data # NoneV /\ ~ config_json.is_synced
    /\ config_json.io.kind = "file"
    /\ CanWriteFile(Fs, config_json.io.path)
    /\ FromStr(files[FileA]).ok => Some(FromStr(files[FileA]).v) # config_json.data

\* C16 as claimed: set and set_value on a document that holds loaded data
\* always succeed: the call does not abort and the key is set in a
\* top-level object, also when the loaded root is null or not an object.
C16_SetAlwaysSucceeds ==
    (lastOp.op \in {"json_set_value", "json_set"} /\ lastOp.loaded) =>
        /\ ~ aborted
        /\ config_json.data # NoneV
        /\ config_json.data.x.t = "obj"
        /\ lastOp.key \in DOMAIN config_json.data.x.m
        /\ config_json.data.x.m[lastOp.key]
             = (IF lastOp.op = "json_set" THEN ToValue(lastOp.val) ELSE lastOp.val)
        /\ ~ config_json.is_synced

----------------------------------------------------------------------------
(* Properties of the priority collection (specification SpecPP).           *)

StrictlyAscending(ks) == \A i, j \in 1..Len(ks) : i < j => ks[i] < ks[j]

\* C17: iter yields every stored item exactly once, in ascending order of
\* the slot keys, whatever the order of the set_at / add / add_top calls,
\* and then ends: the items yielded are those of the occupied keys taken in
\* strictly ascending order, as many as there are occupied keys.
C17_IterAscendingOnce ==
    LET items == Iter(PP)
        n == Cardinality(DOMAIN providers)
    IN  /\ Len(items) = n
        /\ \E ks \in [1..n -> DOMAIN providers] :
              /\ StrictlyAscending(ks)
              /\ \A i \in 1..n : items[i] = providers[ks[i]]

\* Witness of C17: three items stored out of key order (the last call
\* stored neither the lowest nor the highest key) and iterated by key.
C17_Witness ==
    /\ Cardinality(DOMAIN providers) = 3
    /\ lastOp.op = "set_at"
    /\ \E a, b \in DOMAIN providers : a < lastOp.pos /\ lastOp.pos < b
    /\ Iter(PP)[2] = lastOp.item
    /\ Iter(PP)[1] # Iter(PP)[2] /\ Iter(PP)[2] # Iter(PP)[3]

\* C18: set_at on an occupied slot key replaces the item at that key and
\* leaves the number of stored items and every other slot unchanged; every
\* key holds one item (the tracked keys are the keys of the map) in every
\* reachable state.
C18_SetAtOverwrites ==
    [][ /\ priority' = DOMAIN providers'
        /\ Len(Iter(PP)') = Cardinality(priority')
        /\ (lastOp'.op = "set_at" /\ lastOp'.pos \in DOMAIN providers)
             => /\ lastOp'.occupied /\ DOMAIN providers' = DOMAIN providers
                /\ priority' = priority
                /\ providers'[lastOp'.pos] = lastOp'.item
                /\ \A k \in DOMAIN providers \ {lastOp'.pos} :
                      providers'[k] = providers[k]
                /\ Len(Iter(PP)') = Len(Iter(PP)) ]_vars

\* Witness of C18: set_at on a key that held an item; the collection holds
\* the new item at that key, beside another one.
C18_Witness ==
    /\ lastOp.op = "set_at" /\ lastOp.occupied
    /\ Cardinality(DOMAIN providers) = 2
    /\ lastOp.pos = 1
    /\ providers[1] = lastOp.item
    /\ \E k \in DOMAIN providers \ {1} : providers[k] # lastOp.item

\* C19 as claimed: after any non-empty sequence of set_at / add / add_top
\* calls get_lowest_priority() is the lowest occupied slot key and
\* get_upper_priority() is the highest occupied slot key.
C19_ExtremesAreOccupied ==
    priority # {} =>
        /\ lowest_priority \in priority
        /\ \A k \in priority : lowest_priority <= k
        /\ upper_priority \in priority
        /\ \A k \in priority : k <= upper_priority

----------------------------------------------------------------------------
(* The frame of a resolver write (specification Spec).                     *)

\* C20: a resolver write (set / set_value) mutates exactly one source, the
\* JSON document with the lowest slot key: that document gets the key, its
\* other keys, its store and its can_write flag stay, every other source
\* and the file system are unchanged; with no JSON document registered
\* the write changes nothing and does not fail.
C20_WriteFrame ==
    [][ lastOp'.op \in {"set", "set_value"} =>
          /\ priority' = priority /\ DOMAIN providers' = DOMAIN providers
          /\ files' = files /\ dirs' = dirs /\ readonly' = readonly
          /\ JsonSlots = {} => (~ aborted' /\ providers' = providers)
          /\ (JsonSlots # {} /\ ~ aborted') =>
                /\ \A s \in DOMAIN providers \ {FirstJsonSlot} :
                      providers'[s] = providers[s]
                /\ providers'[FirstJsonSlot].kind = "json"
                /\ providers'[FirstJsonSlot].io = providers[FirstJsonSlot].io
                /\ providers'[FirstJsonSlot].can_write = providers[FirstJsonSlot].can_write
                /\ providers'[FirstJsonSlot].data # NoneV
                /\ providers'[FirstJsonSlot].data.x.t = "obj"
                /\ lastOp'.key \in DOMAIN providers'[FirstJsonSlot].data.x.m
                /\ providers'[FirstJsonSlot].data.x.m[lastOp'.key]
                     = (IF lastOp'.op = "set" THEN ToValue(lastOp'.val) ELSE lastOp'.val)
                /\ providers[FirstJsonSlot].data # NoneV =>
                      \A k \in DOMAIN providers[FirstJsonSlot].data.x.m \ {lastOp'.key} :
                         /\ k \in DOMAIN providers'[FirstJsonSlot].data.x.m
                         /\ providers'[FirstJsonSlot].data.x.m[k]
                              = providers[FirstJsonSlot].data.x.m[k] ]_vars

\* Witness of C20: a write with an environment source above two JSON
\* documents: the upper document holds the value, the lower one does not.
C20_Witness ==
    /\ lastOp.op = "set_value" /\ lastOp.val = Str("debug")
    /\ \E e, s1, s2 \in DOMAIN providers :
          /\ e < s1 /\ s1 < s2
          /\ providers[e].kind = "env"
          /\ providers[s1].kind = "json" /\ providers[s2].kind = "json"
          /\ JsonGetValue(providers[s1], lastOp.key) = Some(lastOp.val)
          /\ JsonGetValue(providers[s2], lastOp.key) # Some(lastOp.val)

\* Witness of the second case of C20: a write on a resolver that holds
\* environment sources only.
C20_NoJsonReached ==
    /\ lastOp.op = "set_value" /\ ~ aborted
    /\ providers # <<>>
    /\ JsonSlots = {}

----------------------------------------------------------------------------
(* Further properties of sync() (specification SpecSync).                  *)

\* The sources sync() has to save: JSON documents that are writable and
\* not synced, and their slots in ascending order.
ToSave(c) == c.kind = "json" /\ c.can_write /\ ~ c.is_synced
ToSaveSlots == {s \in DOMAIN providers : ToSave(providers[s])}
NthToSave(i) ==
    CHOOSE s \in ToSaveSlots : Cardinality({t \in ToSaveSlots : t < s}) = i - 1

\* C21: sync() returns exactly one outcome for each JSON document that is
\* writable and not synced at the time of the call, in ascending order of
\* the slot keys, and saves no other source: synced documents,
\* non-writable documents, environment sources and absent sources
\* contribute nothing and are left unchanged, and only files of the
\* documents to save change.
C21_SyncSavesExactlyDirty ==
    [][ lastOp'.op = "sync" =>
          /\ DOMAIN providers' = DOMAIN providers
          /\ Len(lastOp'.res) = Cardinality(ToSaveSlots)
          /\ \A s \in DOMAIN providers \ ToSaveSlots : providers'[s] = providers[s]
          /\ \A q \in DOMAIN files' :
                (q \notin DOMAIN files \/ files'[q] # files[q])
                   => \E s \in ToSaveSlots :
                         providers[s].io.kind = "file"
                            /\ Resolve(Fs, providers[s].io.path) = Some(q)
          /\ \A i \in 1..Cardinality(ToSaveSlots) :
                /\ lastOp'.res[i] = "Ok" =>
                      \/ providers'[NthToSave(i)].is_synced
                      \/ providers[NthToSave(i)].data = NoneV
                /\ lastOp'.res[i] = "Err" =>
                      /\ providers'[NthToSave(i)] = providers[NthToSave(i)]
                      /\ providers[NthToSave(i)].io.kind = "file"
                      /\ ~ CanWriteFile(Fs, providers[NthToSave(i)].io.path) ]_vars

\* Witness of C21: a sync() over an environment source, an absent source
\* or a read-only document next to a document that was saved.
C21_Witness ==
    /\ lastOp.op = "sync"
    /\ Len(lastOp.res) = 1
    /\ Cardinality(DOMAIN providers) = 3
    /\ \E s1, s2, s3 \in DOMAIN providers :
          /\ providers[s1].kind \in {"env", "none"}
          /\ providers[s2].kind = "json" /\ ~ providers[s2].can_write
          /\ ~ providers[s2].is_synced
          /\ providers[s3].kind = "json" /\ providers[s3].can_write
          /\ providers[s3].is_synced /\ providers[s3].data # NoneV

\* C22 as claimed: when load fails, with a read error or with a parse
\* error, the document is unloaded afterwards, whatever state it was in
\* before the call.
C22_FailedLoadLeavesUnloaded ==
    (lastOp.op = "load" /\ ~ lastOp.ok) => ~ JsonIsLoaded(config_json)

----------------------------------------------------------------------------
(* Further properties of the bootstrap (specification SpecBoot).           *)

CwdDoc == providers[CHOOSE s \in RegSlots("cwd") : TRUE]
UnderCwd(p) == Len(p) >= Len(Cwd) /\ SubSeq(p, 1, Len(Cwd)) = Cwd
\* The directory the machine file names for the project scope, read from
\* the file system fs; None when it names none.
StoredProjectDir(fs) ==
    IF ~ FileExists(fs, MachinePath) THEN NoneV
    ELSE IF ~ JsonFromFile(MachinePath, fs).ok THEN NoneV
    ELSE LET d == InternalGetRepoPath(
                     JsonGet(JsonFromFile(MachinePath, fs).doc, RepoPath, "String"),
                     MachinePath)
         IN  IF d = NoneV THEN NoneV ELSE Resolve(fs, d.x)

----------------------------------------------------------------------------
(* Registration order (specification Spec) and the extremes of the         *)
(* collection (specification SpecPP).                                      *)

\* The place of the item at slot key k in the iteration.
IterPos(k) == Cardinality({x \in DOMAIN providers : x <= k})

\* C24: of two sources registered with register_default the one registered
\* earlier is visited before the one registered later, also when
\* register_top calls came between them.
C24_DefaultsInRegistrationOrder ==
    \A i, j \in 1..Len(reg) :
        (i < j /\ reg[i].scope = "default" /\ reg[j].scope = "default") =>
            /\ reg[i].slot \in DOMAIN providers /\ reg[j].slot \in DOMAIN providers
            /\ IterPos(reg[i].slot) < IterPos(reg[j].slot)
            /\ IterPos(reg[j].slot) <= Len(Iter(PP))
            /\ Iter(PP)[IterPos(reg[i].slot)] = providers[reg[i].slot]
            /\ Iter(PP)[IterPos(reg[j].slot)] = providers[reg[j].slot]

\* Witness of C24: a default, then a top, then another default: visited in
\* the order top, first default, second default.
C24_Witness ==
    /\ Len(reg) = 3
    /\ reg[1].scope = "default" /\ reg[2].scope = "top" /\ reg[3].scope = "default"
    /\ lastOp.op = "register_default"
    /\ Len(Iter(PP)) = 3
    /\ Iter(PP)[3] = lastOp.item
    /\ Iter(PP)[2] # Iter(PP)[3]
    /\ Iter(PP)[1] = providers[reg[2].slot]

\* C25: after any sequence of set_at / add / add_top calls, add stores its
\* item at a key strictly greater than every occupied key and add_top at a
\* key strictly lower than every occupied key: neither overwrites an item
\* and each grows the collection by exactly one.
C25_AddAtNewExtreme ==
    [][ lastOp'.op \in {"add", "add_top"} =>
          \E k \in DOMAIN providers' \ DOMAIN providers :
             /\ DOMAIN providers' = DOMAIN providers \cup {k}
             /\ priority' = priority \cup {k}
             /\ Cardinality(DOMAIN providers') = Cardinality(DOMAIN providers) + 1
             /\ providers'[k] = lastOp'.item
             /\ \A o \in DOMAIN providers : providers'[o] = providers[o]
             /\ lastOp'.op = "add" => \A o \in DOMAIN providers : o < k
             /\ lastOp'.op = "add_top" => \A o \in DOMAIN providers : k < o ]_vars

\* Witness of C25: add after set_at stored items at the keys -2 and 2: the
\* item is at key 3.
C25_Witness ==
    /\ lastOp.op = "add"
    /\ DOMAIN providers = {0 - 2, 2, 3}
    /\ providers[3] = lastOp.item
    /\ lowest_priority = 0 - 2 /\ upper_priority = 3

----------------------------------------------------------------------------
(* Properties of the source union (specification SpecSource).              *)

\* C26: on an environment source and on an absent source, set and
\* set_value report that the write was not applied, save and load return
\* success, and none of them changes the source, the file system or the
\* environment; every read on an absent source returns nothing.
C26_NotApplicable ==
    [][ config_json.kind \in {"env", "none"} =>
          /\ lastOp'.op \in {"config_set", "config_set_value"} =>
                lastOp'.res = FALSE /\ ~ aborted'
          /\ lastOp'.op \in {"config_save", "config_load"} => lastOp'.ok
          /\ config_json' = config_json
          /\ files' = files /\ dirs' = dirs /\ readonly' = readonly /\ env' = env
          /\ (config_json.kind = "none"
                /\ lastOp'.op \in {"config_get", "config_get_value"})
                => lastOp'.res = NoneV ]_vars

\* Witness of C26: a write on an environment source that defines the key:
\* not applied, the read still returns the environment's value.
C26_Witness ==
    /\ lastOp.op = "config_set_value" /\ lastOp.res = FALSE
    /\ config_json.kind = "env"
    /\ ConfigGetValue(config_json, lastOp.key, env) = Some(Str("10"))
    /\ lastOp.val = Str("debug")

----------------------------------------------------------------------------
(* Typed reads (specification Spec).                                       *)

\* The value source c holds for key, before any conversion: a JSON leaf
\* that is not null, or the string of the environment variable.
HeldValue(c, key) ==
    IF c.kind = "json"
    THEN IF c.data # NoneV /\ c.data.x.t = "obj" /\ key \in DOMAIN c.data.x.m
            /\ c.data.x.m[key] # Null
         THEN Some(c.data.x.m[key]) ELSE NoneV
    ELSE IF c.kind = "env" /\ c.use_config /\ c.prefix = NoneV /\ key \in DOMAIN env
    THEN Some([t |-> "envstr", v |-> env[key]])
    ELSE NoneV
\* The shape the requested type needs: a JSON string for String, a JSON
\* number for i64; an environment string is a String, and an i64 when it
\* is a numeral.
RightShape(h, ty) ==
    \/ h.t = "str" /\ ty = "String"
    \/ h.t = "num" /\ ty = "i64"
    \/ h.t = "envstr" /\ (ty = "String" \/ h.v \in NumToks)
ConvertingSlots(key, ty) ==
    {s \in DOMAIN providers :
        HeldValue(providers[s], key) # NoneV /\ RightShape(HeldValue(providers[s], key).x, ty)}

\* C27: a typed read treats a value of the wrong shape as absent.  The
\* read of a document returns nothing when the stored value does not
\* convert to the requested type; the read of the resolver goes on to the
\* sources of lower precedence and returns the first value that converts,
\* nothing when none does; it never fails.
C27_WrongShapeIsAbsent ==
    lastOp.op = "get" =>
        /\ ~ aborted
        /\ \A s \in DOMAIN providers :
              (providers[s].kind = "json" /\ s \notin ConvertingSlots(lastOp.key, lastOp.ty))
                 => JsonGet(providers[s], lastOp.key, lastOp.ty) = NoneV
        /\ IF ConvertingSlots(lastOp.key, lastOp.ty) = {}
           THEN lastOp.res = NoneV
           ELSE LET s == CHOOSE x \in ConvertingSlots(lastOp.key, lastOp.ty) :
                            \A y \in ConvertingSlots(lastOp.key, lastOp.ty) : x <= y
                IN  lastOp.res = Some(Typed(lastOp.ty, HeldValue(providers[s], lastOp.key).x.v))

\* Witness of C27: a read of an i64 passes a document that holds a string
\* for the key and returns the number of a source below it.
C27_Witness ==
    /\ lastOp.op = "get" /\ lastOp.ty = "i64"
    /\ lastOp.res = Some(Typed("i64", "10"))
    /\ \E s1, s2 \in DOMAIN providers :
          /\ s1 < s2
          /\ providers[s1].kind = "json"
          /\ HeldValue(providers[s1], lastOp.key) # NoneV
          /\ HeldValue(providers[s1], lastOp.key).x.t = "str"
          /\ s2 \in ConvertingSlots(lastOp.key, lastOp.ty)
          /\ \A s0 \in DOMAIN providers :
                s0 < s2 => s0 \notin ConvertingSlots(lastOp.key, lastOp.ty)

----------------------------------------------------------------------------
(* Dirty tracking of the JSON document (specification SpecDoc) and the     *)
(* keys of the collection (specification SpecPP).                          *)

\* The text the backing store of document c holds, None when it cannot be
\* read.
StoreText(c) ==
    IF c.io.kind = "data" THEN Some(c.io.data)
    ELSE IF FileExists(Fs, c.io.path) THEN Some(files[Resolve(Fs, c.io.path).x])
    ELSE NoneV
Constructors == {"json_new", "from_file", "from_data"}

\* C28: dirty tracking is sticky.  A set or set_value leaves the synced
\* flag false, and the flag of a document stays false through reads,
\* loads, failed saves and further sets: it becomes true only by a save
\* that returns success and has written the data to the backing store.
C28_DirtyIsSticky ==
    [][ (config_json # NoneV /\ lastOp'.op \notin Constructors) =>
          /\ (lastOp'.op \in {"json_set", "json_set_value"} /\ ~ aborted')
                => ~ config_json'.is_synced
          /\ (~ config_json.is_synced /\ config_json'.is_synced) =>
                /\ lastOp'.op = "save" /\ lastOp'.ok
                /\ config_json.data # NoneV
                /\ config_json'.data = config_json.data
                /\ StoreText(config_json)' = Some(ToStringPretty(config_json.data.x)) ]_vars

\* Witness of C28: a modified document after a save that failed on a
\* read-only file: the data differ from the store, still not synced.
C28_Witness ==
    /\ config_json # NoneV
    /\ lastOp.op = "save" /\ ~ lastOp.ok
    /\ config_json.can_write /\ ~ config_json.is_synced
    /\ config_json.io.kind = "file"
    /\ Resolve(Fs, config_json.io.path) # NoneV
    /\ Resolve(Fs, config_json.io.path).x \in readonly
    /\ config_json.data # NoneV
    /\ StoreText(config_json) # NoneV
    /\ StoreText(config_json).x # ToStringPretty(config_json.data.x)

\* C29: in every reachable state of the collection the keys of the item
\* map are the tracked keys: the scans that unwrap a looked-up key
\* (first_mut, map_mut) do not abort and the iterator yields an item for
\* every tracked key.
C29_KeysAgree ==
    /\ DOMAIN providers = priority
    /\ Len(Iter(PP)) = Cardinality(priority)
    /\ ~ FirstMut(PP, IsJson(PP)).panic
    /\ ~ FirstMut(PP, [k \in DOMAIN providers |-> FALSE]).panic
    /\ ~ ProviderSync(PP, Fs).panic
    /\ \A f \in EachClosures : ~ EachMut(PP, SortKeys(priority), f).panic
    /\ \A f \in MapClosures : ~ MapMut(PP, SortKeys(priority), f, <<>>).panic
    /\ ~ aborted

\* Witness of C29: three items stored by set_at, add and add_top.
C29_Witness ==
    /\ Cardinality(priority) = 3
    /\ lastOp.op = "add_top"
    /\ \E k \in priority : k > 0 /\ k < upper_priority
    /\ Len(Iter(PP)) = 3

\* C30: for a document whose backing store is written only through the
\* document, synced = true implies that the value tree in memory is the
\* parsed content of the backing store.
C30_SyncedMeansEqual ==
    (config_json # NoneV /\ config_json.is_synced) =>
        /\ config_json.data # NoneV
        /\ StoreText(config_json) # NoneV
        /\ FromStr(StoreText(config_json).x).ok
        /\ FromStr(StoreText(config_json).x).v = config_json.data.x

\* Witness of C30: a document that was modified and saved to its file.
C30_Witness ==
    /\ config_json # NoneV /\ config_json.is_synced
    /\ lastOp.op = "save" /\ lastOp.ok
    /\ config_json.io.kind = "file"
    /\ config_json.data = Some(Obj([k \in {LogLevel} |-> Num("10")]))
    /\ files[FileA] # TextLog("trace")

----------------------------------------------------------------------------
(* config/mod.rs: get_repo_path after the bootstrap (specification         *)
(* SpecRepo).                                                              *)

\* AppConfig::get_repo_path
GetRepoPath(pp, root_file, e) ==
    InternalGetRepoPath(ProviderGet(pp, RepoPath, "String", e), root_file)

\* The machine files, working-directory files and environments get_repo_path
\* is run on.
RepoMachineTexts == {TextEmptyObject, TextRepo("../myrepo"), TextRepo("/srv/repo")}
RepoCwdTexts == {TextLog("trace"), TextRepo("/srv/repo"), TextRepo("../myrepo")}
RepoFiles ==
    {[p \in {MachinePath} |-> t] : t \in RepoMachineTexts}
    \cup {[p \in {MachinePath, CwdConfigPath} |->
              IF p = MachinePath THEN t ELSE w] :
                 t \in RepoMachineTexts, w \in RepoCwdTexts}
RepoEnvs == {[n \in {"SH__core.log.level"} |-> "trace"],
             [n \in {"SH__core.repo.path"} |-> "/work"],
             [n \in {"SH_core.repo.path"} |-> "/work"]}

InitRepo ==
    /\ providers = PPNew.providers
    /\ priority = PPNew.priority
    /\ lowest_priority = PPNew.lowest_priority
    /\ upper_priority = PPNew.upper_priority
    /\ root = NoneV
    /\ files \in RepoFiles
    /\ dirs = BootDirs
    /\ readonly = {}
    /\ env \in RepoEnvs
    /\ aborted = FALSE
    /\ reg = <<>>
    /\ config_json = NoneV
    /\ lastOp = NoOp

\* run_repo_info: config.get_repo_path()
RepoInfo ==
    /\ ~ aborted
    /\ root # NoneV
    /\ lastOp' = [op |-> "get_repo_path", path |-> GetRepoPath(PP, root.x, env)]
    /\ UNCHANGED config_json
    /\ UNCHANGED <<providers, priority, lowest_priority, upper_priority, root,
                   files, dirs, readonly, env, aborted, reg>>

NextRepo ==
    \/ FromJson(MachinePath)
    \/ AppNew(MachinePath)
    \/ UseEnv
    \/ RepoInfo
    \/ \E tv \in BootSetTyped : Booted /\ Set(RepoPath, tv)
    \/ Booted /\ Sync
    \/ \E tv \in BootSetTyped : Booted /\ RunConfigSet(RepoPath, tv)

SpecRepo == InitRepo /\ [][NextRepo]_vars

\* The project source from_json registered is the one the directory dir
\* locates: a JSON document on dir/.config-sh.json, an absent source when
\* there is no directory.
LocatesProject(dir) ==
    IF ProjectDoc.kind = "json"
    THEN dir # NoneV /\ Join(dir.x, <<ConfigFileName>>) = ProjectDoc.io.path
    ELSE dir = NoneV

\* The machine document names the project directory it named at the
\* bootstrap.
MachineKeyAsBooted == LocatesProject(InternalGetRepoPath(StoredRepoPath, root.x))

\* C31: get_repo_path returns the directory the bootstrap used to locate
\* the project source: present exactly when from_json registered a JSON
\* project source, absent when it registered an absent one, whatever the
\* environment source on top and the working-directory document define.
C31_RepoPathIsBootstrapDir ==
    (BuiltByFromJson /\ lastOp.op = "get_repo_path" /\ MachineKeyAsBooted)
        => LocatesProject(lastOp.path)

\* The two ways C31 fails, each on its own.
\* The working-directory document defines the key, the machine document
\* does not: get_repo_path is present, the project source is absent.
C31_CwdDefinesKey ==
    (BuiltByFromJson /\ lastOp.op = "get_repo_path" /\ MachineKeyAsBooted
       /\ RegSlots("env") = {})
        => LocatesProject(lastOp.path)
\* The environment source on top defines the key.
C31_EnvDefinesKey ==
    (BuiltByFromJson /\ lastOp.op = "get_repo_path" /\ MachineKeyAsBooted
       /\ CwdDoc.kind = "none")
        => LocatesProject(lastOp.path)
\* Without either, get_repo_path is the bootstrap's directory.
C31_MachineOnly ==
    (BuiltByFromJson /\ lastOp.op = "get_repo_path" /\ MachineKeyAsBooted
       /\ (CwdDoc.kind = "json" => JsonGet(CwdDoc, RepoPath, "String") = NoneV)
       /\ (\A s \in RegSlots("env") : ConfigGet(providers[s], RepoPath, "String", env) = NoneV))
        => LocatesProject(lastOp.path)

====
